---- MODULE Spec2Model ----
(***************************************************************************)
(* A model of cloud-debug-proxy-chrome-devtools: the Adapter of            *)
(* src/src/adapter.ts (request router, snapshot translator, value parser,  *)
(* line-number translator) and the WebSocket transport of                  *)
(* src/src/websocket-server.ts that drives it.                             *)
(*                                                                         *)
(* JavaScript strings whose characters the code inspects are sequences of  *)
(* one-character strings; strings that are only compared are TLA+ strings. *)
(* An optional field is a sequence of length 0 (absent / undefined) or 1.  *)
(***************************************************************************)
EXTENDS Integers, Sequences, FiniteSets, TLC

VARIABLES
  propertyDescriptorListMap, \* Adapter.propertyDescriptorListMap: objectId -> list
  breakpoints,               \* the DebugProxy's breakpoint list, in creation order
  nextBreakpoint,            \* number of breakpoints the backend has created
  inflight,                  \* handlers suspended at their await
  running,                   \* FALSE once the process has exited
  last,                      \* what the latest handler step did
  scripts,                   \* parseScripts: its file list, scans and events
  connections                \* the WebSockets the server accepted, in order

vars == <<propertyDescriptorListMap, breakpoints, nextBreakpoint, inflight,
          running, last, scripts, connections>>

----------------------------------------------------------------------------
(* Optional values and JavaScript truthiness.                              *)

None == <<>>
Some(x) == <<x>>
IsSome(o) == Len(o) = 1
Get(o) == o[1]

\* a string field (character sequence): truthy when present and non-empty
TruthyStr(o) == IsSome(o) /\ Len(Get(o)) > 0
\* a number field: truthy when present and not 0
TruthyNum(o) == IsSome(o) /\ Get(o) # 0
\* an object or array field: truthy when present, an empty array included
TruthyObj(o) == IsSome(o)

----------------------------------------------------------------------------
(* Character strings.                                                      *)

StartsWith(s, p) == Len(s) >= Len(p) /\ SubSeq(s, 1, Len(p)) = p
EndsWith(s, p) == Len(s) >= Len(p) /\ SubSeq(s, Len(s) - Len(p) + 1, Len(s)) = p

UpperCase == <<"A","B","C","D","E","F","G","H","I","J","K","L","M",
               "N","O","P","Q","R","S","T","U","V","W","X","Y","Z">>
LowerCase == <<"a","b","c","d","e","f","g","h","i","j","k","l","m",
               "n","o","p","q","r","s","t","u","v","w","x","y","z">>

ToLowerChar(c) ==
  IF \E i \in 1..Len(UpperCase) : UpperCase[i] = c
  THEN LowerCase[CHOOSE i \in 1..Len(UpperCase) : UpperCase[i] = c]
  ELSE c

\* String.prototype.toLowerCase
RECURSIVE toLowerCase(_)
toLowerCase(s) ==
  IF Len(s) = 0 THEN <<>> ELSE <<ToLowerChar(Head(s))>> \o toLowerCase(Tail(s))

Digits == <<"0","1","2","3","4","5","6","7","8","9">>
IsDigit(c) == \E i \in 1..10 : Digits[i] = c
DigitVal(c) == (CHOOSE i \in 1..10 : Digits[i] = c) - 1
AllDigits(s) == \A i \in 1..Len(s) : IsDigit(s[i])

RECURSIVE DecimalVal(_)
DecimalVal(s) ==
  IF Len(s) = 0 THEN 0
  ELSE 10 * DecimalVal(SubSeq(s, 1, Len(s) - 1)) + DigitVal(s[Len(s)])

\* the decimal text of an integer, as template strings print it
RECURSIVE NatToStr(_)
NatToStr(n) ==
  IF n < 0 THEN <<"-">> \o NatToStr(0 - n)
  ELSE IF n < 10 THEN <<Digits[n + 1]>>
  ELSE NatToStr(n \div 10) \o <<Digits[(n % 10) + 1]>>

----------------------------------------------------------------------------
(* Number(value): the StringToNumber grammar of ECMA-262, as far as         *)
(* deciding NaN / infinite / finite.                                        *)

IsWhiteSpace(c) == c \in {" ", "\t", "\n", "\r"}

RECURSIVE TrimLeft(_)
TrimLeft(s) ==
  IF Len(s) > 0 /\ IsWhiteSpace(s[1]) THEN TrimLeft(Tail(s)) ELSE s

RECURSIVE TrimRight(_)
TrimRight(s) ==
  IF Len(s) > 0 /\ IsWhiteSpace(s[Len(s)])
  THEN TrimRight(SubSeq(s, 1, Len(s) - 1)) ELSE s

Trim(s) == TrimRight(TrimLeft(s))

IsHexDigit(c) == IsDigit(c) \/ c \in {"a","b","c","d","e","f","A","B","C","D","E","F"}

\* index of the first character of s that is not a digit, Len(s) + 1 if none
RECURSIVE DigitRun(_, _)
DigitRun(s, i) == IF i <= Len(s) /\ IsDigit(s[i]) THEN DigitRun(s, i + 1) ELSE i

\* ExponentPart: e or E, an optional sign, one or more digits
IsExponentPart(s) ==
  /\ Len(s) >= 2
  /\ s[1] \in {"e", "E"}
  /\ LET r == IF s[2] \in {"+", "-"} THEN SubSeq(s, 3, Len(s)) ELSE Tail(s)
     IN Len(r) >= 1 /\ AllDigits(r)

\* StrUnsignedDecimalLiteral other than Infinity
IsUnsignedDecimal(s) ==
  LET i == DigitRun(s, 1)                \* end of the integer digits
      afterDot == IF i <= Len(s) /\ s[i] = "." THEN i + 1 ELSE i
      j == IF afterDot > i THEN DigitRun(s, afterDot) ELSE i
      intDigits == i - 1
      fracDigits == IF afterDot > i THEN j - afterDot ELSE 0
      rest == SubSeq(s, j, Len(s))
  IN /\ intDigits + fracDigits >= 1
     /\ (Len(rest) = 0 \/ IsExponentPart(rest))

\* index of the first character of s from i on that is not "0"
RECURSIVE ZeroRun(_, _)
ZeroRun(s, i) == IF i <= Len(s) /\ s[i] = "0" THEN ZeroRun(s, i + 1) ELSE i

\* the digit string a, read as the fraction 0.a, is at least 0.b
RECURSIVE FractionAtLeast(_, _)
FractionAtLeast(a, b) ==
  IF Len(b) = 0 THEN TRUE
  ELSE IF Len(a) = 0 THEN ZeroRun(b, 1) > Len(b)
  ELSE IF DigitVal(Head(a)) # DigitVal(Head(b)) THEN DigitVal(Head(a)) > DigitVal(Head(b))
  ELSE FractionAtLeast(Tail(a), Tail(b))

\* the digits of 2^1024 - 2^970, above which a decimal rounds to Infinity
RoundsToInfinity == <<"1","7","9","7","6","9","3","1","3","4","8","6","2","3","1","5","8","0","7","9","4">>

\* a StrUnsignedDecimalLiteral too large for a double: its value is
\* 0.d1d2... * 10^order with d1 the first digit that is not 0
DecimalOverflows(s) ==
  LET i == DigitRun(s, 1)
      afterDot == IF i <= Len(s) /\ s[i] = "." THEN i + 1 ELSE i
      j == IF afterDot > i THEN DigitRun(s, afterDot) ELSE i
      digits == SubSeq(s, 1, i - 1) \o SubSeq(s, afterDot, j - 1)
      rest == SubSeq(s, j, Len(s))
      exponent == IF Len(rest) = 0 THEN 0
                  ELSE IF rest[2] = "-" THEN 0 - DecimalVal(SubSeq(rest, 3, Len(rest)))
                  ELSE IF rest[2] = "+" THEN DecimalVal(SubSeq(rest, 3, Len(rest)))
                  ELSE DecimalVal(Tail(rest))
      lead == ZeroRun(digits, 1) - 1
      order == (i - 1) - lead + exponent
  IN /\ lead < Len(digits)
     /\ \/ order > 309
        \/ order = 309
           /\ FractionAtLeast(SubSeq(digits, lead + 1, Len(digits)), RoundsToInfinity)

Infinity == <<"I","n","f","i","n","i","t","y">>

\* "nan", "posinf", "neginf" or "finite"
NumberKind(value) ==
  LET s == Trim(value)
      signed == Len(s) > 0 /\ s[1] \in {"+", "-"}
      body == IF signed THEN Tail(s) ELSE s
  IN IF Len(s) = 0 THEN "finite"
     ELSE IF body = Infinity
          THEN (IF signed /\ s[1] = "-" THEN "neginf" ELSE "posinf")
     ELSE IF IsUnsignedDecimal(body)
          THEN (IF ~DecimalOverflows(body) THEN "finite"
                ELSE IF signed /\ s[1] = "-" THEN "neginf" ELSE "posinf")
     ELSE IF /\ Len(s) >= 3
             /\ s[1] = "0"
             /\ \/ s[2] \in {"x", "X"}
                   /\ \A i \in 3..Len(s) : IsHexDigit(s[i])
                \/ s[2] \in {"b", "B"}
                   /\ \A i \in 3..Len(s) : s[i] \in {"0", "1"}
                \/ s[2] \in {"o", "O"}
                   /\ \A i \in 3..Len(s) : s[i] \in {"0","1","2","3","4","5","6","7"}
          THEN "finite"
     ELSE "nan"

\* the number Number(value) yields: its kind and the literal that denotes it
Number(value) == [kind |-> NumberKind(value), literal |-> Trim(value)]

----------------------------------------------------------------------------
(* Runtime.RemoteObject                                                    *)

RemoteObject(type, subtype, className, description, objectId, value, unserializable) ==
  [type |-> type, subtype |-> subtype, className |-> className,
   description |-> description, objectId |-> objectId, value |-> value,
   unserializableValue |-> unserializable]

Str_undefined == <<"u","n","d","e","f","i","n","e","d">>
Str_null == <<"n","u","l","l">>
Str_true == <<"t","r","u","e">>
Str_false == <<"f","a","l","s","e">>
Str_NaN == <<"N","a","N">>
Str_NegInfinity == <<"-">> \o Infinity
Str_SymbolOpen == <<"S","y","m","b","o","l","(">>
Str_function == <<"f","u","n","c","t","i","o","n"," ">>
Str_regexp == <<"r","e","g","e","x","p">>
Str_RegExp == <<"R","e","g","E","x","p">>
Str_Function == <<"F","u","n","c","t","i","o","n">>

UndefinedObject == RemoteObject("undefined", None, None, None, None, None, None)

\* Adapter.parseVariableValue
parseVariableValue(value) ==
  IF value = Str_undefined THEN UndefinedObject
  ELSE IF value = Str_null
    THEN RemoteObject("object", Some(Str_null), None, None, None, Some(<<"null">>), None)
  ELSE IF value = Str_true
    THEN RemoteObject("boolean", None, None, None, None, Some(<<"boolean", TRUE>>), None)
  ELSE IF value = Str_false
    THEN RemoteObject("boolean", None, None, None, None, Some(<<"boolean", FALSE>>), None)
  ELSE IF value \in {Str_NaN, Infinity, Str_NegInfinity}
    THEN RemoteObject("number", None, None, Some(value), None, None, Some(value))
  ELSE IF StartsWith(value, Str_SymbolOpen) /\ EndsWith(value, <<")">>)
    THEN RemoteObject("symbol", None, None, Some(value), None, None, None)
  ELSE IF StartsWith(value, Str_function) /\ EndsWith(value, <<"(", ")">>)
    THEN RemoteObject("function", None, Some(Str_Function),
                      Some(value \o <<"{", "}">>), None, None, None)
  ELSE IF StartsWith(value, <<"/">>) /\ EndsWith(value, <<"/">>)
    THEN RemoteObject("object", Some(Str_regexp), Some(Str_RegExp), Some(value),
                      None, None, None)
  ELSE IF NumberKind(value) # "nan"
    THEN RemoteObject("number", None, None, Some(value), None,
                      Some(<<"number", Number(value)>>), None)
  ELSE RemoteObject("string", None, None, None, None, Some(<<"string", value>>), None)

----------------------------------------------------------------------------
(* Line-number translation                                                 *)

\* Adapter.devToolsToStackdriverLine
\* the line handed on as it came
SameLine(line) == line

devToolsToStackdriverLine(line) == line + 1

\* a translation that takes line 0 for a possible line
stackdriverToDevToolsLineFromZero(line) ==
  IF line < 0 THEN [ok |-> FALSE, line |-> 0] ELSE [ok |-> TRUE, line |-> line - 1]

\* Adapter.stackdriverToDevToolsLine: [ok, line]; ok = FALSE is the throw
stackdriverToDevToolsLine(line) ==
  IF line < 1 THEN [ok |-> FALSE, line |-> 0] ELSE [ok |-> TRUE, line |-> line - 1]

----------------------------------------------------------------------------
(* Stackdriver Debug data: Variable, StackFrame, Breakpoint.               *)

Variable(name, value, varTableIndex, members, type, status) ==
  [name |-> name, value |-> value, varTableIndex |-> varTableIndex,
   members |-> members, type |-> type, status |-> status]

StackFrame(function, path, line, locals, arguments) ==
  [function |-> function, location |-> [path |-> path, line |-> line],
   locals |-> locals, arguments |-> arguments]

Breakpoint(id, path, line, isFinalState, stackFrames, variableTable) ==
  [id |-> id, location |-> [path |-> path, line |-> line],
   isFinalState |-> isFinalState, stackFrames |-> stackFrames,
   variableTable |-> variableTable]

Str_array == <<"a","r","r","a","y">>
Str_typedarray == <<"t","y","p","e","d","a","r","r","a","y">>
Str_error == <<"e","r","r","o","r">>
Str_Error == <<"E","r","r","o","r">>
Str_date == <<"d","a","t","e">>
Str_Date == <<"D","a","t","e">>
Str_Object == <<"O","b","j","e","c","t">>
Str_length == <<"l","e","n","g","t","h">>
Str_stack == <<"s","t","a","c","k">>
Str_context == <<"c","o","n","t","e","x","t">>

REMOTE_OBJECT_SUBTYPE_SET ==
  { Str_array, Str_null, <<"n","o","d","e">>, Str_regexp, Str_date,
    <<"m","a","p">>, <<"s","e","t">>, <<"w","e","a","k","m","a","p">>,
    <<"w","e","a","k","s","e","t">>, <<"i","t","e","r","a","t","o","r">>,
    <<"g","e","n","e","r","a","t","o","r">>, Str_error,
    <<"p","r","o","x","y">>, <<"p","r","o","m","i","s","e">>, Str_typedarray }

TYPED_ARRAY_SET ==
  { <<"I","n","t","8","A","r","r","a","y">>,
    <<"U","i","n","t","8","A","r","r","a","y">>,
    <<"U","i","n","t","8","C","l","a","m","p","e","d","A","r","r","a","y">>,
    <<"I","n","t","1","6","A","r","r","a","y">>,
    <<"U","i","n","t","1","6","A","r","r","a","y">>,
    <<"I","n","t","3","2","A","r","r","a","y">>,
    <<"U","i","n","t","3","2","A","r","r","a","y">>,
    <<"F","l","o","a","t","3","2","A","r","r","a","y">>,
    <<"F","l","o","a","t","6","4","A","r","r","a","y">> }

STATUS_MESSAGE_SET ==
  { <<"b","a","s","e","U","r","l">>,
    <<"_","p","e","n","d","i","n","g","E","n","c","o","d","i","n","g">>,
    <<"s","e","a","r","c","h">>, <<"_","t","r","a","i","l","e","r">>,
    <<"_","u","r","l">> }

----------------------------------------------------------------------------
(* Adapter.logVariableStatus.  hasThis is FALSE when the method is called   *)
(* through a local alias, so that `this` is undefined and reading           *)
(* this.logger throws a TypeError.  Result: [err, level].                   *)

StatusHasExpectedFormat(variable) ==
  LET status == Get(variable.status)
  IN /\ ~TruthyNum(variable.varTableIndex)
     /\ status.isError = TRUE
     /\ status.refersTo = "VARIABLE_VALUE"
     /\ IsSome(status.description)
     /\ TruthyStr(Get(status.description).format)

logVariableStatus(variable, hasThis) ==
  IF TruthyObj(variable.status)
  THEN IF StatusHasExpectedFormat(variable)
       THEN (IF hasThis THEN [err |-> "none", level |-> "silly"]
                        ELSE [err |-> "TypeError", level |-> "none"])
       ELSE [err |-> "unexpectedStatusFormat", level |-> "none"]
  ELSE IF TruthyStr(variable.name) /\ Get(variable.name) \in STATUS_MESSAGE_SET
  THEN (IF hasThis THEN [err |-> "none", level |-> "silly"]
                   ELSE [err |-> "TypeError", level |-> "none"])
  ELSE (IF hasThis THEN [err |-> "none", level |-> "info"]
                   ELSE [err |-> "TypeError", level |-> "none"])

----------------------------------------------------------------------------
(* The ISO-8601 round trip of loadSnapshot:                                 *)
(*   value === new Date(Date.parse(value)).toISOString()                    *)
(* toISOString prints YYYY-MM-DDTHH:mm:ss.sssZ for the years 0 to 9999, and *)
(* the text parses back to the same instant exactly when its fields name a  *)
(* real date and time of day.                                               *)

IsLeapYear(y) == (y % 4 = 0 /\ y % 100 # 0) \/ y % 400 = 0

DaysInMonth(y, m) ==
  IF m = 2 THEN (IF IsLeapYear(y) THEN 29 ELSE 28)
  ELSE IF m \in {4, 6, 9, 11} THEN 30 ELSE 31

IsISOString(value) ==
  /\ Len(value) = 24
  /\ AllDigits(SubSeq(value, 1, 4)) /\ value[5] = "-"
  /\ AllDigits(SubSeq(value, 6, 7)) /\ value[8] = "-"
  /\ AllDigits(SubSeq(value, 9, 10)) /\ value[11] = "T"
  /\ AllDigits(SubSeq(value, 12, 13)) /\ value[14] = ":"
  /\ AllDigits(SubSeq(value, 15, 16)) /\ value[17] = ":"
  /\ AllDigits(SubSeq(value, 18, 19)) /\ value[20] = "."
  /\ AllDigits(SubSeq(value, 21, 23)) /\ value[24] = "Z"
  /\ LET y == DecimalVal(SubSeq(value, 1, 4))
         m == DecimalVal(SubSeq(value, 6, 7))
         d == DecimalVal(SubSeq(value, 9, 10))
     IN /\ m \in 1..12
        /\ d \in 1..DaysInMonth(y, m)
        /\ DecimalVal(SubSeq(value, 12, 13)) <= 23
        /\ DecimalVal(SubSeq(value, 15, 16)) <= 59
        /\ DecimalVal(SubSeq(value, 18, 19)) <= 59

\* new Date(ms).toString(): the local-time text of the instant value names
DateToString(value) == <<"D","a","t","e",":">> \o value

----------------------------------------------------------------------------
(* Adapter.loadSnapshot, after its await: the translation of the breakpoint *)
(* the backend returned.  A throw is a result whose err is not "none"; the  *)
(* store and the snapshot object are as the throw left them.                *)

\* a Map: a function on the set of its keys
MapHas(map, key) == key \in DOMAIN map
MapGet(map, key) == IF key \in DOMAIN map THEN Some(map[key]) ELSE None
\* a store that keeps the entry set last and nothing else
MapSetEvicting(map, key, val) == [k \in {key} |-> val]

MapSet(map, key, val) ==
  [k \in (DOMAIN map) \cup {key} |-> IF k = key THEN val ELSE map[k]]
EmptyMap == [k \in {} |-> {}]

\* getObjectId and the other template strings `${snapshot.id}-<role>-${index}`;
\* a breakpoint id is the text of its number
getObjectId(snapshotId, varTableIndex) ==
  NatToStr(snapshotId) \o <<"-","o","b","j","e","c","t","-">> \o NatToStr(varTableIndex)
EmptyObjectId(snapshotId, index) ==
  NatToStr(snapshotId) \o <<"-","e","m","p","t","y","-">> \o NatToStr(index)
ScopeId(snapshotId, index) ==
  NatToStr(snapshotId) \o <<"-","s","c","o","p","e","-">> \o NatToStr(index)
CallFrameId(snapshotId, index) ==
  NatToStr(snapshotId) \o <<"-","f","r","a","m","e","-">> \o NatToStr(index)

PropertyDescriptor(name, value) ==
  [name |-> name, configurable |-> FALSE, enumerable |-> TRUE, value |-> value]

\* parseVariable: [err, descriptor], descriptor None for the null it returns
parseVariable(variable, varTableIndexToRemoteObjectMap) ==
  IF TruthyStr(variable.type) \/ TruthyObj(variable.members)
  THEN [err |-> "variableHasTypeOrMembers", descriptor |-> None]
  ELSE IF TruthyStr(variable.value) /\ TruthyNum(variable.varTableIndex)
  THEN [err |-> "variableHasValueAndIndex", descriptor |-> None]
  ELSE IF TruthyStr(variable.value) \/ TruthyNum(variable.varTableIndex)
  THEN IF ~TruthyStr(variable.name)
       THEN [err |-> "variableHasNoName", descriptor |-> None]
       ELSE [err |-> "none",
             descriptor |-> Some(PropertyDescriptor(
               Get(variable.name),
               IF TruthyStr(variable.value)
               THEN Some(parseVariableValue(Get(variable.value)))
               ELSE MapGet(varTableIndexToRemoteObjectMap,
                           Get(variable.varTableIndex))))]
  ELSE \* logVariableStatus(variable), called through the local alias
       [err |-> logVariableStatus(variable, FALSE).err, descriptor |-> None]

\* a parsed variable in front of the parsed rest of its list; null is filtered out
PrependParsed(first, rest) ==
  IF first.err # "none" THEN [err |-> first.err, list |-> <<>>]
  ELSE IF rest.err # "none" THEN [err |-> rest.err, list |-> <<>>]
  ELSE [err |-> "none", list |-> first.descriptor \o rest.list]

\* parseVariableList: list.map(parseVariable).filter(nonNull); [err, list].
\* The first variable that throws ends the map.
RECURSIVE parseVariableList(_, _)
parseVariableList(list, varTableIndexToRemoteObjectMap) ==
  IF Len(list) = 0 THEN [err |-> "none", list |-> <<>>]
  ELSE PrependParsed(parseVariable(Head(list), varTableIndexToRemoteObjectMap),
                     parseVariableList(Tail(list), varTableIndexToRemoteObjectMap))

\* the first member named `length`, for the description of an array
RECURSIVE ArrayDescription(_)
ArrayDescription(members) ==
  IF Len(members) = 0 THEN None
  ELSE IF Head(members).name = Some(Str_length)
  THEN Some(<<"A","r","r","a","y","(">>
            \o (IF IsSome(Head(members).value) THEN Get(Head(members).value)
                ELSE Str_undefined)
            \o <<")">>)
  ELSE ArrayDescription(Tail(members))

\* the value of the first member named `stack` whose value is truthy
RECURSIVE StackDescription(_)
StackDescription(members) ==
  IF Len(members) = 0 THEN None
  ELSE IF Head(members).name = Some(Str_stack) /\ TruthyStr(Head(members).value)
  THEN Head(members).value
  ELSE StackDescription(Tail(members))

Classified(err, className, subtype, description) ==
  [err |-> err, className |-> className, subtype |-> subtype,
   description |-> description]

\* an array described by its class name when it has no `length`
ClassifyArrayLenient(className, subtype, description) ==
  [err |-> "none", className |-> Some(className), subtype |-> Some(subtype),
   description |-> IF TruthyStr(description) THEN description ELSE Some(className)]

\* subtype `array`: the description needs a member named `length`
ClassifyArray(className, subtype, description) ==
  IF ~TruthyStr(description)
  THEN Classified("arrayHasNoLength", Some(className), Some(subtype), None)
  ELSE Classified("none", Some(className), Some(subtype), description)

\* pass 1, values `#<ClassName>`, className being the text between `#<` and `>`
ClassifyClass(variable, className, lower) ==
  IF lower \in REMOTE_OBJECT_SUBTYPE_SET
  THEN IF lower = Str_array
       THEN ClassifyArray(className, lower,
                          IF TruthyObj(variable.members)
                          THEN ArrayDescription(Get(variable.members)) ELSE None)
       ELSE Classified("none", Some(className), Some(lower), Some(className))
  ELSE Classified("none", Some(className),
                  IF className \in TYPED_ARRAY_SET THEN Some(Str_typedarray) ELSE None,
                  Some(className))

\* className = variable.value.substr(2, variable.value.length - 3)
WrappedClassName(value) == SubSeq(value, 3, Len(value) - 1)

\* pass 1, values that start with `Error`
ErrorDescription(stack) == IF IsSome(stack) THEN stack ELSE Some(Str_Error)

ClassifyError(variable) ==
  IF TruthyObj(variable.members)
  THEN Classified("none", Some(Str_Error), Some(Str_error),
                  ErrorDescription(StackDescription(Get(variable.members))))
  ELSE Classified("errorHasNoStack", Some(Str_Error), Some(Str_error), Some(Str_Error))

\* pass 1, every other value: an ISO date or a throw
ClassifyDate(variable) ==
  IF IsISOString(Get(variable.value))
  THEN Classified("none", Some(Str_Date), Some(Str_date),
                  Some(DateToString(Get(variable.value))))
  ELSE Classified("unexpectedValue", None, None, None)

\* pass 1: [err, className, subtype, description] of an entry with a value
Classify(variable) ==
  IF StartsWith(Get(variable.value), <<"#", "<">>) /\ EndsWith(Get(variable.value), <<">">>)
  THEN ClassifyClass(variable, WrappedClassName(Get(variable.value)),
                     toLowerCase(WrappedClassName(Get(variable.value))))
  ELSE IF StartsWith(Get(variable.value), Str_Error) THEN ClassifyError(variable)
  ELSE ClassifyDate(variable)

\* pass 1: the objectId of an entry classified as className
IsEmptyObject(variable, className) ==
  ~TruthyObj(variable.members) /\ className = Some(Str_Object)

PassOneObjectId(snapshotId, variable, index, className) ==
  IF TruthyObj(variable.members) THEN Some(getObjectId(snapshotId, index))
  ELSE IF IsEmptyObject(variable, className) THEN Some(EmptyObjectId(snapshotId, index))
  ELSE None

\* pass 1 for an entry with a value, classified as c.
\* acc = [err, store, map, log, callFrames, frames]: the throw if any,
\* propertyDescriptorListMap, varTableIndexToRemoteObjectMap, the severities
\* logged, the call frames built and the snapshot's stack frames.
PassOneValue(snapshotId, variable, index, acc, c) ==
  IF c.err # "none" THEN [acc EXCEPT !.err = c.err]
  ELSE [acc EXCEPT
          !.store = IF IsEmptyObject(variable, c.className)
                    THEN MapSet(acc.store, EmptyObjectId(snapshotId, index), <<>>)
                    ELSE acc.store,
          !.map = MapSet(acc.map, index,
                    RemoteObject("object", c.subtype, c.className, c.description,
                                 PassOneObjectId(snapshotId, variable, index, c.className),
                                 None, None))]

\* pass 1 for an entry without a value: this.logVariableStatus(variable)
PassOneStatus(acc, logged) ==
  IF logged.err # "none" THEN [acc EXCEPT !.err = logged.err]
  ELSE [acc EXCEPT !.log = Append(acc.log, logged.level)]

\* pass 1, the callback of the first variableTable.forEach, for one entry
PassOneEntry(snapshotId, variable, index, acc) ==
  IF \/ TruthyStr(variable.name) \/ TruthyStr(variable.type)
     \/ TruthyNum(variable.varTableIndex)
  THEN [acc EXCEPT !.err = "tableEntryHasNameTypeOrIndex"]
  ELSE IF TruthyStr(variable.value)
  THEN PassOneValue(snapshotId, variable, index, acc, Classify(variable))
  ELSE PassOneStatus(acc, logVariableStatus(variable, TRUE))

\* the first forEach, from table position i (1-based; the index is i - 1)
RECURSIVE PassOne(_, _, _, _)
PassOne(snapshotId, table, i, acc) ==
  IF i > Len(table) \/ acc.err # "none" THEN acc
  ELSE PassOne(snapshotId, table, i + 1,
               PassOneEntry(snapshotId, table[i], i - 1, acc))

\* pass 2 that parses the members and stores nothing
PassTwoStoreNothing(snapshotId, index, acc, parsed) ==
  IF parsed.err # "none" THEN [acc EXCEPT !.err = parsed.err] ELSE acc

\* pass 2: the list is stored under getObjectId(index)
PassTwoStore(snapshotId, index, acc, parsed) ==
  IF parsed.err # "none" THEN [acc EXCEPT !.err = parsed.err]
  ELSE [acc EXCEPT !.store =
          MapSet(acc.store, getObjectId(snapshotId, index), parsed.list)]

\* pass 2, the callback of the second variableTable.forEach, for one entry
PassTwoEntry(snapshotId, variable, index, acc) ==
  IF TruthyStr(variable.type) \/ TruthyNum(variable.varTableIndex)
  THEN [acc EXCEPT !.err = "tableEntryHasTypeOrIndex"]
  ELSE IF TruthyStr(variable.value)
  THEN PassTwoStore(snapshotId, index, acc,
         IF TruthyObj(variable.members)
         THEN parseVariableList(Get(variable.members), acc.map)
         ELSE [err |-> "none",
               list |-> <<PropertyDescriptor(Get(variable.value),
                                             MapGet(acc.map, index))>>])
  ELSE acc

RECURSIVE PassTwo(_, _, _, _)
PassTwo(snapshotId, table, i, acc) ==
  IF i > Len(table) \/ acc.err # "none" THEN acc
  ELSE PassTwo(snapshotId, table, i + 1,
               PassTwoEntry(snapshotId, table[i], i - 1, acc))

\* path.resolve(sourceDirectory, path) for paths free of `.` and `..` segments:
\* the last absolute argument wins, the working directory when there is none
WorkingDirectory == <<"/","w","d">>

PathResolve(sourceDirectory, path) ==
  IF StartsWith(path, <<"/">>) THEN path
  ELSE IF StartsWith(sourceDirectory, <<"/">>) THEN sourceDirectory \o <<"/">> \o path
  ELSE WorkingDirectory \o <<"/">> \o sourceDirectory \o <<"/">> \o path

\* a frame's last local when it is the `context` the agent captured
IsContextVariable(variable) ==
  variable.name = Some(Str_context) /\ TruthyNum(variable.varTableIndex)

FrameLocals(stackFrame) ==
  IF TruthyObj(stackFrame.locals) THEN Get(stackFrame.locals) ELSE <<>>

\* whether the callback takes the last local as the `this` of the frame
PopsContext(stackFrame) ==
  /\ Len(FrameLocals(stackFrame)) > 0
  /\ IsContextVariable(FrameLocals(stackFrame)[Len(FrameLocals(stackFrame))])

\* contextRemoteObject, undefined (None) when nothing was taken or found
ContextRemoteObject(stackFrame, varTableIndexToRemoteObjectMap) ==
  IF PopsContext(stackFrame)
  THEN MapGet(varTableIndexToRemoteObjectMap,
              Get(FrameLocals(stackFrame)[Len(FrameLocals(stackFrame))].varTableIndex))
  ELSE None

\* stackFrame.locals after stackFrame.locals.pop()
RemainingLocals(stackFrame) ==
  IF PopsContext(stackFrame)
  THEN SubSeq(FrameLocals(stackFrame), 1, Len(FrameLocals(stackFrame)) - 1)
  ELSE FrameLocals(stackFrame)

\* the stack frame object as the callback leaves it
FrameAfter(stackFrame) ==
  IF PopsContext(stackFrame)
  THEN [stackFrame EXCEPT !.locals = Some(RemainingLocals(stackFrame))]
  ELSE stackFrame

CallFrame(snapshotId, sourceDirectory, stackFrame, index, lineNumber, this) ==
  [callFrameId |-> CallFrameId(snapshotId, index),
   functionName |-> stackFrame.function,
   location |-> [scriptId |-> PathResolve(sourceDirectory, stackFrame.location.path),
                 lineNumber |-> lineNumber],
   scopeChain |-> <<[type |-> "local",
                     object |-> [type |-> "object",
                                 objectId |-> ScopeId(snapshotId, index)]]>>,
   this |-> this]

\* the callback of snapshot.stackFrames.map for one frame, its locals parsed
\* into `parsed` and its line translated into `line`
CallFrameBuilt(snapshotId, sourceDirectory, stackFrame, index, acc, parsed, line) ==
  IF parsed.err # "none"
  THEN [acc EXCEPT !.err = parsed.err, !.frames[index + 1] = FrameAfter(stackFrame)]
  ELSE IF TruthyObj(stackFrame.arguments)
  THEN [acc EXCEPT !.err = "stackFrameHasArguments",
                   !.frames[index + 1] = FrameAfter(stackFrame)]
  ELSE IF ~line.ok
  THEN [acc EXCEPT !.err = "lineNumberNotPossible",
                   !.frames[index + 1] = FrameAfter(stackFrame),
                   !.store = MapSet(acc.store, ScopeId(snapshotId, index), parsed.list)]
  ELSE [acc EXCEPT
          !.frames[index + 1] = FrameAfter(stackFrame),
          !.store = MapSet(acc.store, ScopeId(snapshotId, index), parsed.list),
          !.callFrames = Append(acc.callFrames,
            CallFrame(snapshotId, sourceDirectory, stackFrame, index, line.line,
                      IF IsSome(ContextRemoteObject(stackFrame, acc.map))
                      THEN Get(ContextRemoteObject(stackFrame, acc.map))
                      ELSE UndefinedObject))]

CallFrameOf(snapshotId, sourceDirectory, stackFrame, index, acc) ==
  CallFrameBuilt(snapshotId, sourceDirectory, stackFrame, index, acc,
                 IF TruthyObj(stackFrame.locals)
                 THEN parseVariableList(RemainingLocals(stackFrame), acc.map)
                 ELSE [err |-> "none", list |-> <<>>],
                 stackdriverToDevToolsLine(stackFrame.location.line))

RECURSIVE CallFrames(_, _, _, _)
CallFrames(snapshotId, sourceDirectory, i, acc) ==
  IF i > Len(acc.frames) \/ acc.err # "none" THEN acc
  ELSE CallFrames(snapshotId, sourceDirectory, i + 1,
                  CallFrameOf(snapshotId, sourceDirectory, acc.frames[i], i - 1, acc))

\* snapshot.stackFrames || [] and snapshot.variableTable || []
StackFramesOf(snapshot) ==
  IF TruthyObj(snapshot.stackFrames) THEN Get(snapshot.stackFrames) ELSE <<>>
VariableTableOf(snapshot) ==
  IF TruthyObj(snapshot.variableTable) THEN Get(snapshot.variableTable) ELSE <<>>

\* the two passes over the variable table, then the stack frames
Translate(snapshot, store, sourceDirectory) ==
  CallFrames(snapshot.id, sourceDirectory, 1,
    PassTwo(snapshot.id, VariableTableOf(snapshot), 1,
      PassOne(snapshot.id, VariableTableOf(snapshot), 1,
        [err |-> "none", store |-> store, map |-> EmptyMap, log |-> <<>>,
         callFrames |-> <<>>, frames |-> StackFramesOf(snapshot)])))

Loaded(err, store, snapshot, payload, log, map) ==
  [err |-> err, store |-> store, snapshot |-> snapshot, payload |-> payload,
   log |-> log, map |-> map]

\* what loadSnapshot returns or throws once the translation `done` has run
LoadResult(snapshot, done) ==
  Loaded(done.err, done.store,
         [snapshot EXCEPT !.stackFrames = Some(done.frames),
                          !.variableTable = Some(VariableTableOf(snapshot))],
         IF done.err # "none" THEN None
         ELSE Some([reason |-> "other", hitBreakpoints |-> <<snapshot.id>>,
                    callFrames |-> done.callFrames]),
         done.log, done.map)

\* the translation without a look at isFinalState
loadSnapshotUnchecked(snapshot, store, sourceDirectory) ==
  LoadResult(snapshot, Translate(snapshot, store, sourceDirectory))

\* loadSnapshot from the breakpoint `snapshot` the backend returned, against the
\* store `store`: [err, store, snapshot, payload, log, map].  payload is the
\* Debugger.paused event data, None when the load threw; map is
\* varTableIndexToRemoteObjectMap.
loadSnapshot(snapshot, store, sourceDirectory) ==
  IF snapshot.isFinalState # Some(TRUE)
  THEN Loaded("notACapturedSnapshot", store,
              [snapshot EXCEPT !.stackFrames = Some(StackFramesOf(snapshot)),
                               !.variableTable = Some(VariableTableOf(snapshot))],
              None, <<>>, EmptyMap)
  ELSE LoadResult(snapshot, Translate(snapshot, store, sourceDirectory))

----------------------------------------------------------------------------
(* Requests, results, wire messages and calls to the DebugProxy.            *)

Params(url, urlRegex, lineNumber, condition, objectId, breakpointId, scriptId) ==
  [url |-> url, urlRegex |-> urlRegex, lineNumber |-> lineNumber,
   condition |-> condition, objectId |-> objectId,
   breakpointId |-> breakpointId, scriptId |-> scriptId]

NoParams == Params(None, None, None, None, None, None, None)

\* MessageRequest.  method holds the pieces of the method string between its
\* `.` characters: <<"Debugger", "enable">> is `Debugger.enable`.
MessageRequest(id, method, params) == [id |-> id, method |-> method, params |-> params]

\* ProcessedResponse: an object with any of these keys, {} when it has none
Result(debuggerId, scriptSource, breakpointId, locations, result) ==
  [debuggerId |-> debuggerId, scriptSource |-> scriptSource,
   breakpointId |-> breakpointId, locations |-> locations, result |-> result]

EmptyResult == Result(None, None, None, None, None)

\* what travels on the WebSocket: MessageResponse {id, result} or
\* MessageEvent {method, params}
MessageResponse(id, result) ==
  [id |-> Some(id), result |-> Some(result), method |-> None, params |-> None]
MessageEvent(method, params) ==
  [id |-> None, result |-> None, method |-> Some(method), params |-> params]

\* a call of a DebugProxy method that returns a promise
Call(name, breakpointId, path, line, condition, action) ==
  [name |-> name, breakpointId |-> breakpointId, path |-> path, line |-> line,
   condition |-> condition, action |-> action]

\* what an Adapter emits
Emitted(event, data) == [event |-> event, data |-> data]

----------------------------------------------------------------------------
(* Adapter.processRequest: the enumerated methods.                          *)

DebuggerUnsupported ==
  {"continueToLocation", "evaluateOnCallFrame", "restartFrame",
   "scheduleStepIntoAsync", "setReturnValue", "setScriptSource",
   "setVariableValue", "stepInto", "stepOut", "stepOver"}

DebuggerNoEffect ==
  {"disable", "pause", "pauseOnAsyncCall", "setAsyncCallStackDepth",
   "setBlackboxedRanges", "setBlackboxPatterns", "setBreakpointsActive",
   "setPauseOnExceptions", "setSkipAllPauses"}

DebuggerNotImplemented ==
  {"getPossibleBreakpoints", "getStackTrace", "searchInContent", "setBreakpoint",
   "setBreakpointOnFunctionCall"}

RuntimeUnsupported ==
  {"addBinding", "awaitPromise", "callFunctionOn", "compileScript", "evaluate",
   "getIsolateId", "getHeapUsage", "globalLexicalScopeNames", "queryObjects",
   "removeBinding", "runScript", "terminateExecution"}

RuntimeNoEffect ==
  {"disable", "discardConsoleEntries", "enable", "releaseObject",
   "releaseObjectGroup", "runIfWaitingForDebugger", "setAsyncCallStackDepth",
   "setCustomObjectFormatterEnabled", "setMaxCallStackSizeToCapture"}

\* debugProxy.getDebuggerId(): the debuggerId option the proxy was built with
DebuggerId == "debugger-id"

\* debugProxy.options.sourceDirectory
SourceDirectory == <<"/","s","r","c">>

\* request.method.split('.', 2): at most the first two pieces
SplitMethod(method) == SubSeq(method, 1, IF Len(method) < 2 THEN Len(method) ELSE 2)

\* what a run of processRequest comes to, up to its first await:
\*   "return" with result, "throw" with err, or "await" with the call awaited
Return(result, emitted) ==
  [kind |-> "return", result |-> Some(result), err |-> "none",
   emitted |-> emitted, call |-> None]
Throw(err) ==
  [kind |-> "throw", result |-> None, err |-> err, emitted |-> <<>>, call |-> None]
Await(call) ==
  [kind |-> "await", result |-> None, err |-> "none", emitted |-> <<>>,
   call |-> Some(call)]

\* setBreakpoint awaited without a look at the url
SetBreakpointByUrlUnchecked(request) ==
  IF ~IsSome(request.params) THEN Throw("TypeError")
  ELSE Await(Call("setBreakpoint", None, Get(request.params).url,
                  IF IsSome(Get(request.params).lineNumber)
                  THEN Some(Get(Get(request.params).lineNumber) + 1)
                  ELSE None,
                  Get(request.params).condition, Some("CAPTURE")))

\* case 'setBreakpointByUrl', up to the await of debugProxy.setBreakpoint
SetBreakpointByUrlStart(request) ==
  IF ~IsSome(request.params) THEN Throw("TypeError")
  ELSE LET params == Get(request.params)
       IN IF ~TruthyStr(params.url) THEN Throw("urlNotSpecified")
          ELSE Await(Call("setBreakpoint", None, params.url,
                          \* devToolsToStackdriverLine(undefined) is NaN
                          IF IsSome(params.lineNumber)
                          THEN Some(devToolsToStackdriverLine(Get(params.lineNumber)))
                          ELSE None,
                          params.condition, Some("CAPTURE")))

\* the list looked up and returned, undefined or not
GetPropertiesUnchecked(request, store) ==
  IF ~IsSome(request.params) THEN Throw("TypeError")
  ELSE Return(Result(None, None, None, None,
                     IF /\ IsSome(Get(request.params).objectId)
                        /\ MapHas(store, Get(Get(request.params).objectId))
                     THEN Some(store[Get(Get(request.params).objectId)])
                     ELSE None),
              <<>>)

\* case 'getProperties'
GetProperties(request, store) ==
  IF ~IsSome(request.params) THEN Throw("TypeError")
  ELSE LET objectId == Get(request.params).objectId
       IN IF IsSome(objectId) /\ MapHas(store, Get(objectId))
          THEN Return(Result(None, None, None, None, Some(store[Get(objectId)])), <<>>)
          ELSE Throw("remoteObjectDoesNotExist")

\* the cases that fall through to `return {}` instead of throwing
NotSupportedFallsThrough(request) == Return(EmptyResult, <<>>)

\* the cases of the unsupported methods: throw new Error(`... is not supported`)
NotSupported(request) == Throw("notSupported")

\* the cases that reach the default of the switch
NoEffectUnrecognized(request) == Throw("unrecognizedMethod")

\* the cases of the methods without effect and of those not implemented:
\* return {}
NoEffect(request) == Return(EmptyResult, <<>>)

DebuggerRequest(request, method) ==
  IF method = Some("enable")
  THEN Return(Result(Some(DebuggerId), None, None, None, None), <<>>)
  ELSE IF method = Some("getScriptSource")
  THEN IF ~IsSome(request.params) THEN Throw("TypeError")
       ELSE Await(Call("readFile", None, Get(request.params).scriptId, None, None, None))
  ELSE IF method = Some("removeBreakpoint")
  THEN IF ~IsSome(request.params) THEN Throw("TypeError")
       ELSE Await(Call("removeBreakpoint", Get(request.params).breakpointId,
                       None, None, None, None))
  ELSE IF method = Some("resume")
  THEN Return(EmptyResult, <<Emitted("resume", None)>>)
  ELSE IF method = Some("setBreakpointByUrl") THEN SetBreakpointByUrlStart(request)
  ELSE IF IsSome(method) /\ Get(method) \in DebuggerUnsupported
  THEN NotSupported(request)
  ELSE IF IsSome(method) /\ Get(method) \in DebuggerNoEffect
  THEN NoEffect(request)
  ELSE IF IsSome(method) /\ Get(method) \in DebuggerNotImplemented
  THEN NoEffect(request)
  ELSE Throw("unrecognizedDebuggerMethod")

RuntimeRequest(request, method, store) ==
  IF method = Some("getProperties") THEN GetProperties(request, store)
  ELSE IF IsSome(method) /\ Get(method) \in RuntimeUnsupported
  THEN NotSupported(request)
  ELSE IF IsSome(method) /\ Get(method) \in RuntimeNoEffect
  THEN NoEffect(request)
  ELSE Throw("unrecognizedRuntimeMethod")

\* a router that rejects the domains it does not model
processRequestStrict(request, store) ==
  LET pieces == SplitMethod(request.method)
      domain == IF Len(pieces) >= 1 THEN Some(pieces[1]) ELSE None
      method == IF Len(pieces) >= 2 THEN Some(pieces[2]) ELSE None
  IN IF domain = Some("Debugger") THEN DebuggerRequest(request, method)
     ELSE IF domain = Some("Runtime") THEN RuntimeRequest(request, method, store)
     ELSE Throw("unrecognizedDomain")

\* Adapter.processRequest, up to its first await
processRequest(request, store) ==
  LET pieces == SplitMethod(request.method)
      domain == IF Len(pieces) >= 1 THEN Some(pieces[1]) ELSE None
      method == IF Len(pieces) >= 2 THEN Some(pieces[2]) ELSE None
  IN IF domain = Some("Debugger") THEN DebuggerRequest(request, method)
     ELSE IF domain = Some("Runtime") THEN RuntimeRequest(request, method, store)
     ELSE Return(EmptyResult, <<>>)

----------------------------------------------------------------------------
(* The DebugProxy (package @google-cloud/debug-proxy-common), as the        *)
(* Adapter uses it: a list of breakpoints, and calls that the backend       *)
(* answers or rejects.                                                      *)

MaxBreakpoints == 1   \* breakpoints the backend creates in a run
MaxInFlight == 1      \* handlers suspended at an await at a time

\* debugProxy.getBreakpointList(captured)
RECURSIVE getBreakpointList(_, _)
getBreakpointList(list, captured) ==
  IF Len(list) = 0 THEN <<>>
  ELSE (IF (Head(list).isFinalState = Some(TRUE)) = captured
        THEN <<Head(list)>> ELSE <<>>) \o getBreakpointList(Tail(list), captured)

\* Adapter.breakpointToBreakpointInfo; name is `${path}:${line}`
\* name is `${breakpoint.location.path}:${breakpoint.location.line}`
breakpointToBreakpointInfo(breakpoint) ==
  [name |-> breakpoint.location.path \o <<":">> \o NatToStr(breakpoint.location.line),
   id |-> breakpoint.id]

RECURSIVE BreakpointInfoList(_)
BreakpointInfoList(list) ==
  IF Len(list) = 0 THEN <<>>
  ELSE <<breakpointToBreakpointInfo(Head(list))>> \o BreakpointInfoList(Tail(list))

\* Adapter.emitUpdateBreakpointList: the event it emits
emitUpdateBreakpointList(list) ==
  Emitted("updateBreakpointList",
    Some([pendingBreakpointInfoList |->
            BreakpointInfoList(getBreakpointList(list, FALSE)),
          capturedSnapshotInfoList |->
            BreakpointInfoList(getBreakpointList(list, TRUE))]))

BreakpointIndex(list, id) ==
  IF \E i \in 1..Len(list) : list[i].id = id
  THEN CHOOSE i \in 1..Len(list) : list[i].id = id
  ELSE 0

RemoveAt(list, i) == SubSeq(list, 1, i - 1) \o SubSeq(list, i + 1, Len(list))

\* files fs.readFile can read, and the text it yields
ReadableFiles == {<<"/","s","r","c","/","a",".","j","s">>}
FileText(path) == <<"t","e","x","t",":">> \o path

\* the replies of the backend to a call: "reject", or "resolve" with what the
\* promise yields.  A created breakpoint echoes the path; its line is the one
\* asked for or one the backend chose, here 0.
Replies(call, list, created) ==
  IF call.name = "setBreakpoint"
  THEN {[kind |-> "reject", breakpoint |-> None, text |-> None]}
       \cup { [kind |-> "resolve", text |-> None,
               breakpoint |-> Some(Breakpoint(created + 1, Get(call.path), line,
                                              None, None, None))] :
              line \in IF created < MaxBreakpoints
                       THEN {0, 1} \cup (IF IsSome(call.line) THEN {Get(call.line)} ELSE {})
                       ELSE {} }
  ELSE IF call.name = "removeBreakpoint"
  THEN {[kind |-> "reject", breakpoint |-> None, text |-> None]}
       \cup (IF IsSome(call.breakpointId)
                /\ BreakpointIndex(list, Get(call.breakpointId)) # 0
             THEN {[kind |-> "resolve", breakpoint |-> None, text |-> None]}
             ELSE {})
  ELSE IF call.name = "getBreakpoint"
  THEN IF IsSome(call.breakpointId) /\ BreakpointIndex(list, Get(call.breakpointId)) # 0
       THEN {[kind |-> "resolve", text |-> None,
              breakpoint |-> Some(list[BreakpointIndex(list, Get(call.breakpointId))])]}
       ELSE {[kind |-> "reject", breakpoint |-> None, text |-> None]}
  ELSE \* readFile
       IF IsSome(call.path) /\ Get(call.path) \in ReadableFiles
       THEN {[kind |-> "resolve", breakpoint |-> None,
              text |-> Some(FileText(Get(call.path)))]}
       ELSE {[kind |-> "reject", breakpoint |-> None, text |-> None]}

\* the breakpoint list after the backend has answered the call
ListAfter(call, reply, list) ==
  IF reply.kind = "reject" THEN list
  ELSE IF call.name = "setBreakpoint" THEN Append(list, Get(reply.breakpoint))
  ELSE IF call.name = "removeBreakpoint"
  THEN RemoveAt(list, BreakpointIndex(list, Get(call.breakpointId)))
  ELSE list

----------------------------------------------------------------------------
(* Adapter.processRequest, from the await on.                               *)

\* case 'setBreakpointByUrl' after debugProxy.setBreakpoint resolved: the
\* notification is emitted before the response is built
SetBreakpointByUrlFinish(breakpoint, list) ==
  LET line == stackdriverToDevToolsLine(breakpoint.location.line)
      emitted == <<emitUpdateBreakpointList(list)>>
  IN IF ~line.ok
     THEN [Throw("lineNumberNotPossible") EXCEPT !.emitted = emitted]
     ELSE Return(Result(None, None, Some(breakpoint.id),
                        Some(<<[scriptId |-> breakpoint.location.path,
                                lineNumber |-> line.line,
                                columnNumber |-> 0]>>),
                        None),
                 emitted)

\* processRequest resumed with the backend's reply; list is the breakpoint
\* list the DebugProxy then holds
processRequestResume(call, reply, list) ==
  IF reply.kind = "reject" THEN Throw("rejected")
  ELSE IF call.name = "setBreakpoint"
  THEN SetBreakpointByUrlFinish(Get(reply.breakpoint), list)
  ELSE IF call.name = "removeBreakpoint" THEN Return(EmptyResult, <<>>)
  ELSE Return(Result(None, Get(reply.text), None, None, None), <<>>)

----------------------------------------------------------------------------
(* The WebSocket transport (serveWebSocket / serveDevTools): what the       *)
(* connection sends and logs for a handler that has run to its end.         *)

\* adapter.on('resume', () => sendEvent({method: 'Debugger.resumed'}))
RECURSIVE EventsSent(_)
EventsSent(emitted) ==
  IF Len(emitted) = 0 THEN <<>>
  ELSE (IF Head(emitted).event = "resume"
        THEN <<MessageEvent("Debugger.resumed", None)>> ELSE <<>>)
       \o EventsSent(Tail(emitted))

\* a response sent whether processRequest returned or threw
MessagesSentAlways(request, run) ==
  EventsSent(run.emitted)
  \o <<MessageResponse(request.id,
                       IF run.kind = "return" THEN Get(run.result) ELSE EmptyResult)>>

\* ws.on('message'): try { sendResponse({id, result}) } catch { logger.error }
MessagesSent(request, run) ==
  EventsSent(run.emitted)
  \o (IF run.kind = "return"
      THEN <<MessageResponse(request.id, Get(run.result))>> ELSE <<>>)

ErrorsLogged(run) == IF run.kind = "throw" THEN 1 ELSE 0

----------------------------------------------------------------------------
(* parseScripts: the files globby lists are scanned through a p-limit of    *)
(* CONCURRENCY, and once Promise.all has every ScriptInfo one               *)
(* Debugger.scriptParsed event per file is sent.                            *)

CONCURRENCY == 10

\* getScriptInfo: the ScriptInfo the read stream ends with, or its error
getScriptInfo(scriptId, file) ==
  IF file.readable
  THEN [ok |-> TRUE, scriptId |-> scriptId, endLine |-> file.numberOfLines]
  ELSE [ok |-> FALSE, scriptId |-> scriptId, endLine |-> 0]

\* the scans p-limit lets run at once
ActiveCount(status) == Cardinality({i \in 1..Len(status) : status[i] = "scanning"})

\* every queued scan started at once
LimitNone(status) == [i \in 1..Len(status) |-> IF status[i] = "queued" THEN "scanning" ELSE status[i]]

\* p-limit: queued functions are started in their order while fewer than
\* CONCURRENCY are running
RECURSIVE limit(_)
limit(status) ==
  IF ActiveCount(status) < CONCURRENCY /\ \E i \in 1..Len(status) : status[i] = "queued"
  THEN limit([status EXCEPT ![CHOOSE i \in 1..Len(status) :
                                /\ status[i] = "queued"
                                /\ \A j \in 1..(i - 1) : status[j] # "queued"] = "scanning"])
  ELSE status

\* the number of scans of each file once the scans of `after` are started
Started(started, before, after) ==
  [i \in 1..Len(started) |->
     IF before[i] = "queued" /\ after[i] = "scanning" THEN started[i] + 1 ELSE started[i]]

\* scriptInfoList.forEach(sendEvent(...))
ScriptParsed(scriptInfo) ==
  MessageEvent("Debugger.scriptParsed",
               Some([scriptId |-> scriptInfo.scriptId, url |-> scriptInfo.scriptId,
                     startLine |-> 0, startColumn |-> 0,
                     endLine |-> scriptInfo.endLine, endColumn |-> 0,
                     executionContextId |-> 0, hash |-> <<>>]))

\* the state of parseScripts: phase is "idle" before the call, "globbing" at
\* the await of globby, "scanning" at the await of Promise.all, then
\* "returned" or "threw"
Scripts(phase, fileList, status, started, results, sent) ==
  [phase |-> phase, fileList |-> fileList, status |-> status, started |-> started,
   results |-> results, sent |-> sent]

NoScripts == Scripts("idle", <<>>, <<>>, <<>>, <<>>, <<>>)

\* what parseScripts sends when Promise.all has resolved
ScriptParsedEvents(results) == [i \in 1..Len(results) |-> ScriptParsed(Get(results[i]))]

\* wss.on('connection'): parseScripts is called and awaits globby
ParseScriptsCalled ==
  /\ running
  /\ scripts.phase = "idle"
  /\ scripts' = [scripts EXCEPT !.phase = "globbing"]
  /\ UNCHANGED <<propertyDescriptorListMap, breakpoints, nextBreakpoint, inflight,
                 running, last, connections>>

\* parseScripts once globby has listed the files: every file is handed to
\* limit, and Promise.all is awaited
ScansStarted(fileList, status) ==
  /\ scripts' =
       IF Len(fileList) = 0
       THEN Scripts("returned", fileList, <<>>, <<>>, <<>>, <<>>)
       ELSE Scripts("scanning", fileList, status,
                    Started([i \in 1..Len(fileList) |-> 0],
                            [i \in 1..Len(fileList) |-> "queued"], status),
                    [i \in 1..Len(fileList) |-> None], <<>>)
  /\ UNCHANGED <<propertyDescriptorListMap, breakpoints, nextBreakpoint, inflight,
                 running, last, connections>>

GlobbyResolves(fileList) ==
  /\ running
  /\ scripts.phase = "globbing"
  /\ ScansStarted(fileList, limit([i \in 1..Len(fileList) |-> "queued"]))

\* the scan of file i has ended with `info` and p-limit has gone on to
\* `status`.  An error rejects Promise.all: parseScripts throws in the
\* connection handler, which nobody catches, and the process exits.  With the
\* last ScriptInfo Promise.all resolves and the events are sent.
ScanEnded(i, info, status) ==
  /\ scripts' =
       IF ~info.ok
       THEN [scripts EXCEPT !.phase = "threw", !.status = status,
                            !.started = Started(scripts.started, scripts.status, status)]
       ELSE IF \A j \in 1..Len(status) : status[j] = "done"
       THEN [scripts EXCEPT
               !.phase = "returned", !.status = status,
               !.results = [scripts.results EXCEPT ![i] = Some(info)],
               !.sent = ScriptParsedEvents([scripts.results EXCEPT ![i] = Some(info)])]
       ELSE [scripts EXCEPT
               !.status = status,
               !.started = Started(scripts.started, scripts.status, status),
               !.results = [scripts.results EXCEPT ![i] = Some(info)]]
  /\ running' = info.ok
  /\ UNCHANGED <<propertyDescriptorListMap, breakpoints, nextBreakpoint, inflight, last,
                 connections>>

\* the read stream of file i ends or fails
ScanEnds(i) ==
  /\ running
  /\ scripts.phase = "scanning"
  /\ i \in 1..Len(scripts.status)
  /\ scripts.status[i] = "scanning"
  /\ ScanEnded(i, getScriptInfo(PathResolve(SourceDirectory, scripts.fileList[i].filePath),
                                scripts.fileList[i]),
               limit([scripts.status EXCEPT ![i] =
                        IF scripts.fileList[i].readable THEN "done" ELSE "failed"]))

----------------------------------------------------------------------------
(* The state machine.  A step is the arrival of a request (the handler runs *)
(* to its end or to its await), the backend's answer to an awaited call     *)
(* (the handler runs on to its end), or a breakpoint hit.  `last` records   *)
(* what the step did.                                                       *)

Handler(request, caller, call) == [request |-> request, caller |-> caller, call |-> call]

\* what the step just taken did, and the store and breakpoint list before it
Last(op, request, caller, kind, err, result, emitted, sent, logged, calls, created, load, storeBefore, breakpointsBefore) ==
  [op |-> op, request |-> request, caller |-> caller, kind |-> kind, err |-> err,
   result |-> result, emitted |-> emitted, sent |-> sent, logged |-> logged,
   calls |-> calls, created |-> created, load |-> load,
   storeBefore |-> storeBefore, breakpointsBefore |-> breakpointsBefore]

MaxConnections == 2   \* WebSockets the server accepts in a run

\* the server with its first client connected
OneConnection == <<"open">>

\* the id of the next request: the least one no suspended handler is using
FreshId ==
  CHOOSE i \in 1..(MaxInFlight + 1) :
    /\ \A h \in inflight : IsSome(h.request) => Get(h.request).id # i
    /\ \A j \in 1..(i - 1) : \E h \in inflight : IsSome(h.request) /\ Get(h.request).id = j

\* ws.on('message') for a request whose processRequest came to `run`
RequestStep(request, run) ==
  /\ running
  /\ request.id = FreshId
  /\ run.kind = "await" => Cardinality(inflight) < MaxInFlight
  /\ inflight' = IF run.kind = "await"
                 THEN inflight \cup {Handler(Some(request), "connection", Get(run.call))}
                 ELSE inflight
  /\ last' = Last("request", Some(request), "connection", run.kind, run.err,
                  run.result, run.emitted,
                  IF run.kind = "await" THEN <<>> ELSE MessagesSent(request, run),
                  ErrorsLogged(run), run.call, None, None,
                  propertyDescriptorListMap, breakpoints)
  /\ UNCHANGED <<propertyDescriptorListMap, breakpoints, nextBreakpoint, running,
                 scripts, connections>>

\* the connection a request arrives on is one whose WebSocket is open
OpenConnections == {c \in 1..Len(connections) : connections[c] = "open"}

\* this.emit('resume') inside processRequest: EventEmitter runs the 'resume'
\* listeners in the order the connections added them, and none is ever taken
\* off.  The listener of a connection sends on its own WebSocket, and send
\* throws when that socket is not open: emit ends there, the listeners after it
\* do not run and processRequest rejects.  run.emitted becomes the signals that
\* reached the listener of connection c.
ListenersRun(run, sockets, c) ==
  IF /\ \E i \in 1..Len(run.emitted) : run.emitted[i].event = "resume"
     /\ \E k \in 1..Len(sockets) : sockets[k] = "closed"
  THEN [Throw("webSocketNotOpen") EXCEPT
          !.emitted = IF \E k \in 1..(c - 1) : sockets[k] = "closed"
                      THEN <<>> ELSE run.emitted]
  ELSE run

\* a request arrives on connection c
RequestArrivesOn(c, request) ==
  /\ c \in OpenConnections
  /\ RequestStep(request,
                 ListenersRun(processRequest(request, propertyDescriptorListMap),
                              connections, c))

\* a request arrives: processRequest runs to its end, or to its await
RequestArrives(request) == \E c \in OpenConnections : RequestArrivesOn(c, request)

\* wss.on('connection') to its first await: the message handler and the
\* 'resume' listener of the new WebSocket are added
Connects ==
  /\ running
  /\ Len(connections) < MaxConnections
  /\ connections' = Append(connections, "open")
  /\ last' = Last("connection", None, "server", "await", "none", None, <<>>, <<>>, 0,
                  None, None, None, propertyDescriptorListMap, breakpoints)
  /\ UNCHANGED <<propertyDescriptorListMap, breakpoints, nextBreakpoint, inflight,
                 running, scripts>>

\* the client of connection c goes away; the server has no 'close' handler
Closes(c) ==
  /\ running
  /\ c \in OpenConnections
  /\ connections' = [connections EXCEPT ![c] = "closed"]
  /\ last' = Last("close", None, "server", "return", "none", None, <<>>, <<>>, 0,
                  None, None, None, propertyDescriptorListMap, breakpoints)
  /\ UNCHANGED <<propertyDescriptorListMap, breakpoints, nextBreakpoint, inflight,
                 running, scripts>>

\* the handler of `request` ends with `run` after the backend answered its call
ReplyStep(handler, request, created, list, run) ==
  /\ inflight' = inflight \ {handler}
  /\ breakpoints' = list
  /\ nextBreakpoint' = IF IsSome(created) THEN nextBreakpoint + 1 ELSE nextBreakpoint
  /\ last' = Last("reply", Some(request), "connection", run.kind, run.err,
                  run.result, run.emitted, MessagesSent(request, run),
                  ErrorsLogged(run), Some(handler.call), created, None,
                  propertyDescriptorListMap, breakpoints)
  /\ UNCHANGED <<propertyDescriptorListMap, running, scripts, connections>>

\* the backend answers the call a request handler awaits; the handler runs on
BackendReplies(handler, reply) ==
  /\ running
  /\ handler \in inflight
  /\ handler.caller = "connection"
  /\ reply \in Replies(handler.call, breakpoints, nextBreakpoint)
  /\ ReplyStep(handler, Get(handler.request),
               IF handler.call.name = "setBreakpoint" THEN reply.breakpoint ELSE None,
               ListAfter(handler.call, reply, breakpoints),
               processRequestResume(handler.call, reply,
                                    ListAfter(handler.call, reply, breakpoints)))

\* adapter.loadSnapshot(snapshotId) is called: directly ("direct"), or by the
\* 'loadSnapshot' listener of serveDevTools ("listener") after the extension's
\* loadSnapshot message made the adapter emit the event.  It runs to its await.
LoadSnapshotCalled(snapshotId, caller) ==
  LET call == Call("getBreakpoint", Some(snapshotId), None, None, None, None)
  IN /\ running
     /\ Cardinality(inflight) < MaxInFlight
     /\ inflight' = inflight \cup {Handler(None, caller, call)}
     /\ last' = Last("loadSnapshot", None, caller, "await", "none", None,
                     IF caller = "listener"
                     THEN <<Emitted("loadSnapshot", Some(snapshotId))>> ELSE <<>>,
                     <<>>, 0, Some(call), None, None,
                     propertyDescriptorListMap, breakpoints)
     /\ UNCHANGED <<propertyDescriptorListMap, breakpoints, nextBreakpoint, running,
                    scripts, connections>>

ReplaceBreakpoint(list, id, breakpoint) ==
  [list EXCEPT ![BreakpointIndex(list, id)] = breakpoint]

\* a loadSnapshot that gives way to other handlers after pass 1: the step ends
\* with the store as pass 1 left it
LoadStepAfterPassOne(handler, reply, loaded) ==
  /\ inflight' = inflight \ {handler}
  /\ propertyDescriptorListMap' =
       IF reply.kind = "reject" \/ Get(reply.breakpoint).isFinalState # Some(TRUE)
       THEN propertyDescriptorListMap
       ELSE PassOne(Get(reply.breakpoint).id, VariableTableOf(Get(reply.breakpoint)), 1,
                    [err |-> "none", store |-> propertyDescriptorListMap,
                     map |-> EmptyMap, log |-> <<>>, callFrames |-> <<>>,
                     frames |-> StackFramesOf(Get(reply.breakpoint))]).store
  /\ running' = running
  /\ last' = Last("loadSnapshotReply", None, handler.caller, "await", "none",
                  None, <<>>, <<>>, 0, None, None,
                  IF reply.kind = "reject" THEN None
                  ELSE Some([snapshot |-> Get(reply.breakpoint),
                             payload |-> loaded.payload,
                             map |-> loaded.map,
                             log |-> loaded.log]),
                  propertyDescriptorListMap, breakpoints)
  /\ UNCHANGED <<breakpoints, nextBreakpoint, scripts, connections>>

\* loadSnapshot ends as `loaded`.  The listener sends the payload as
\* Debugger.paused; when its loadSnapshot throws, the listener's promise rejects
\* with nobody handling it and the unhandledRejection handler of index.ts exits
\* the process.
LoadStep(handler, reply, loaded) ==
  /\ inflight' = inflight \ {handler}
  /\ propertyDescriptorListMap' = loaded.store
  /\ breakpoints' =
       IF reply.kind = "reject" THEN breakpoints
       ELSE ReplaceBreakpoint(breakpoints, Get(reply.breakpoint).id, loaded.snapshot)
  /\ running' = ~(handler.caller = "listener" /\ loaded.err # "none")
  /\ last' = Last("loadSnapshotReply", None, handler.caller,
                  IF loaded.err # "none" THEN "throw" ELSE "return", loaded.err,
                  None, <<>>,
                  IF handler.caller = "listener" /\ loaded.err = "none"
                  THEN <<MessageEvent("Debugger.paused", loaded.payload)>>
                  ELSE <<>>,
                  IF handler.caller = "listener" /\ loaded.err # "none" THEN 1 ELSE 0,
                  None, None,
                  IF reply.kind = "reject" THEN None
                  ELSE Some([snapshot |-> Get(reply.breakpoint),
                             payload |-> loaded.payload,
                             map |-> loaded.map,
                             log |-> loaded.log]),
                  propertyDescriptorListMap, breakpoints)
  /\ UNCHANGED <<nextBreakpoint, scripts, connections>>

\* debugProxy.getBreakpoint answers; loadSnapshot translates without a further
\* await
LoadSnapshotReplies(handler, reply) ==
  /\ running
  /\ handler \in inflight
  /\ handler.call.name = "getBreakpoint"
  /\ reply \in Replies(handler.call, breakpoints, nextBreakpoint)
  /\ LoadStep(handler, reply,
              IF reply.kind = "reject"
              THEN Loaded("rejected", propertyDescriptorListMap, None, None, <<>>,
                          EmptyMap)
              ELSE loadSnapshot(Get(reply.breakpoint), propertyDescriptorListMap,
                                SourceDirectory))

\* the DebugProxy emits 'breakpointHit': the breakpoint at position i of its list
\* has been captured with `data`; the Adapter's listener emits the list
BreakpointHit(i, data) ==
  LET list == [breakpoints EXCEPT ![i] =
                 [@ EXCEPT !.isFinalState = Some(TRUE),
                           !.stackFrames = data.stackFrames,
                           !.variableTable = data.variableTable]]
  IN /\ running
     /\ i \in 1..Len(breakpoints)
     /\ breakpoints[i].isFinalState # Some(TRUE)
     /\ breakpoints' = list
     /\ last' = Last("breakpointHit", None, "debugProxy", "return", "none", None,
                     <<emitUpdateBreakpointList(list)>>, <<>>, 0, None, None, None,
                     propertyDescriptorListMap, breakpoints)
     /\ UNCHANGED <<propertyDescriptorListMap, nextBreakpoint, inflight, running,
                    scripts, connections>>

----------------------------------------------------------------------------
(* The inputs of the router specification.                                  *)

Str_a == <<"a">>
Str_x == <<"x">>
Str_f == <<"f">>
Str_one == <<"1">>
Str_three == <<"3">>
Str_WrappedObject == <<"#","<">> \o Str_Object \o <<">">>
Str_WrappedArray == <<"#","<","A","r","r","a","y",">">>
Str_ajs == <<"a",".","j","s">>
Str_srcajs == <<"/","s","r","c","/","a",".","j","s">>
Str_condition == <<"x",">","1">>

ValueVariable(name, value) == Variable(Some(name), Some(value), None, None, None, None)
ReferenceVariable(name, index) == Variable(Some(name), None, Some(index), None, None, None)
TableEntry(value, members) == Variable(None, Some(value), None, members, None, None)

\* the backend hands out the ids 1..MaxBreakpoints; the snapshot it holds when the
\* proxy starts has the next id
CapturedId == MaxBreakpoints + 1

CapturedSnapshot ==
  Breakpoint(CapturedId, Str_ajs, 8, Some(TRUE),
    Some(<<StackFrame(Str_f, Str_ajs, 8,
                      Some(<<ValueVariable(Str_x, Str_true),
                             ReferenceVariable(Str_context, 1)>>),
                      None)>>),
    Some(<<TableEntry(Str_WrappedArray, Some(<<ValueVariable(Str_length, Str_three)>>)),
           TableEntry(Str_WrappedObject,
                      Some(<<ValueVariable(Str_a, Str_one),
                             ReferenceVariable(Str_x, 1)>>))>>))

\* what a breakpoint hit captures
HitData ==
  {[stackFrames |-> Some(<<StackFrame(Str_f, Str_srcajs, 1, None, None)>>),
    variableTable |-> Some(<<TableEntry(Str_WrappedObject, None)>>)]}

\* an id the backend knows nothing of
UnknownId == MaxBreakpoints + 2

\* object identifiers a client asks about
ObjectIds ==
  {getObjectId(CapturedId, 0), getObjectId(CapturedId, 1), ScopeId(CapturedId, 0),
   EmptyObjectId(1, 0), ScopeId(CapturedId, 1), getObjectId(UnknownId, 0)}

LineNumbers == {0, 2}

SetBreakpointByUrlParams ==
  {None,
   Some(Params(None, None, Some(0), Some(<<>>), None, None, None)),
   Some(Params(None, Some(<<>>), Some(0), Some(<<>>), None, None, None)),
   Some(Params(None, Some(<<"a">>), Some(0), None, None, None, None)),
   Some(Params(Some(<<>>), None, Some(0), None, None, None, None))}
  \cup {Some(Params(Some(Str_srcajs), None, Some(l), None, None, None, None)) :
          l \in LineNumbers}
  \cup {Some(Params(Some(Str_srcajs), Some(<<"*">>), Some(2), Some(Str_condition),
                    None, None, None)),
        Some(Params(Some(Str_srcajs), None, None, None, None, None, None))}

GetPropertiesParams ==
  {None, Some(NoParams)}
  \cup {Some(Params(None, None, None, None, Some(o), None, None)) : o \in ObjectIds}

RemoveBreakpointParams ==
  {None, Some(NoParams)}
  \cup {Some(Params(None, None, None, None, None, Some(b), None)) :
          b \in {CapturedId, 1, UnknownId}}

GetScriptSourceParams ==
  {None}
  \cup {Some(Params(None, None, None, None, None, None, Some(f))) :
          f \in {Str_srcajs, Str_ajs}}

\* params for the methods that do not read them
AnyParams ==
  {None,
   Some(Params(Some(Str_srcajs), None, Some(0), None,
               Some(getObjectId(CapturedId, 0)), Some(CapturedId), Some(Str_srcajs)))}

DebuggerMethods ==
  DebuggerUnsupported \cup DebuggerNoEffect \cup DebuggerNotImplemented
  \cup {"enable", "resume"}

\* method strings outside the enumerated sets, as their pieces
OtherMethods ==
  {<<"Debugger", "bogus">>, <<"Debugger">>, <<"Debugger", "">>,
   <<"Debugger", "enable", "x">>, <<"Runtime", "bogus">>, <<"Runtime">>,
   <<"Runtime", "getProperties", "x">>, <<"Console", "enable">>,
   <<"HeapProfiler", "enable">>, <<"Profiler", "enable">>,
   <<"Schema", "getDomains">>, <<"Unknown", "enable">>, <<"enable">>, <<"">>,
   <<"debugger", "enable">>}

Requests(id) ==
  {MessageRequest(id, <<"Debugger", m>>, p) : m \in DebuggerMethods, p \in AnyParams}
  \cup {MessageRequest(id, <<"Runtime", m>>, p) :
          m \in RuntimeUnsupported \cup RuntimeNoEffect, p \in AnyParams}
  \cup {MessageRequest(id, m, p) : m \in OtherMethods, p \in AnyParams}
  \cup {MessageRequest(id, <<"Debugger", "setBreakpointByUrl">>, p) :
          p \in SetBreakpointByUrlParams}
  \cup {MessageRequest(id, <<"Runtime", "getProperties">>, p) : p \in GetPropertiesParams}
  \cup {MessageRequest(id, <<"Debugger", "removeBreakpoint">>, p) :
          p \in RemoveBreakpointParams}
  \cup {MessageRequest(id, <<"Debugger", "getScriptSource">>, p) :
          p \in GetScriptSourceParams}

\* requests that arrive while another handler is suspended at its await
ConcurrentRequests(id) ==
  {MessageRequest(id, <<"Debugger", "resume">>, None),
   MessageRequest(id, <<"Debugger", "stepOver">>, None),
   MessageRequest(id, <<"Runtime", "getProperties">>,
                  Some(Params(None, None, None, None,
                              Some(ScopeId(CapturedId, 0)), None, None)))}

SnapshotIds == {CapturedId, 1, UnknownId}

InitLast ==
  Last("init", None, "none", "return", "none", None, <<>>, <<>>, 0, None, None, None,
       EmptyMap, <<>>)

Init ==
  /\ propertyDescriptorListMap = EmptyMap
  /\ breakpoints = <<CapturedSnapshot>>
  /\ nextBreakpoint = 0
  /\ inflight = {}
  /\ running = TRUE
  /\ last = InitLast
  /\ scripts = NoScripts
  /\ connections = OneConnection

Next ==
  \/ \E request \in Requests(FreshId) :
       /\ inflight # {} => request \in ConcurrentRequests(FreshId)
       /\ RequestArrives(request)
  \/ \E handler \in inflight :
       \E reply \in Replies(handler.call, breakpoints, nextBreakpoint) :
         BackendReplies(handler, reply)
  \/ \E snapshotId \in SnapshotIds, caller \in {"direct", "listener"} :
       LoadSnapshotCalled(snapshotId, caller)
  \/ \E handler \in inflight :
       \E reply \in Replies(handler.call, breakpoints, nextBreakpoint) :
         LoadSnapshotReplies(handler, reply)
  \/ \E i \in 1..Len(breakpoints), data \in HitData : BreakpointHit(i, data)

Spec == Init /\ [][Next]_vars

----------------------------------------------------------------------------
(* The translation of snapshots of many shapes: the backend starts with one *)
(* snapshot of a family, loadSnapshot is called on it and the client reads  *)
(* the store.                                                                *)

MaxMembers == 1
MaxTable == 2
MaxLocals == 2
MaxFrames == 1

SeqsUpTo(S, n) == UNION {[1..k -> S] : k \in 0..n}

Str_ErrorX == <<"E","r","r","o","r",":"," ","x">>
Str_ErrorStack == <<"E","r","r","o","r",":"," ","x","\n","a","t"," ","f">>
Str_IsoDate ==
  <<"2","0","1","8","-","0","7","-","0","4","T","1","2",":","3","0",":","0","0",".",
    "0","0","0","Z">>
Str_Uint8Array == <<"#","<","U","i","n","t","8","A","r","r","a","y",">">>

\* a variable that carries a status message of the expected format
StatusVariable(name) ==
  Variable(Some(name), None, None, None, None,
           Some([isError |-> TRUE, refersTo |-> "VARIABLE_VALUE",
                 description |-> Some([format |-> <<"e">>])]))

\* status messages that do not have the format of an error in a variable
OtherStatuses ==
  {[isError |-> FALSE, refersTo |-> "VARIABLE_VALUE",
    description |-> Some([format |-> <<"e">>])],
   [isError |-> TRUE, refersTo |-> "VARIABLE_NAME",
    description |-> Some([format |-> <<"e">>])],
   [isError |-> TRUE, refersTo |-> "VARIABLE_VALUE", description |-> None]}

\* variables without a value: with a status of another format, or with nothing
\* but a name that is a status message
OtherStatusVariable(name) ==
  Variable(Some(name), None, None, None, None,
           Some([isError |-> FALSE, refersTo |-> "VARIABLE_VALUE",
                 description |-> Some([format |-> <<"e">>])]))
NameOnlyVariable == Variable(Some(<<"s","e","a","r","c","h">>), None, None, None, None, None)

\* table entries without a value that carry a status
StatusEntries ==
  {Variable(None, None, None, None, None, StatusVariable(Str_a).status)}
  \cup {Variable(None, None, None, None, None, Some(status)) : status \in OtherStatuses}

MemberShapes ==
  {ValueVariable(Str_length, Str_three), ValueVariable(Str_stack, Str_ErrorStack),
   ValueVariable(Str_a, Str_one), ReferenceVariable(Str_x, 0),
   ReferenceVariable(Str_x, 1), StatusVariable(Str_a), OtherStatusVariable(Str_a),
   NameOnlyVariable}

MemberLists == {None} \cup {Some(m) : m \in SeqsUpTo(MemberShapes, MaxMembers)}

EntryValues ==
  {None, Some(Str_WrappedObject), Some(Str_WrappedArray), Some(Str_Uint8Array),
   Some(Str_ErrorX), Some(Str_IsoDate), Some(<<"z">>)}

TableEntries ==
  {Variable(None, v, None, m, None, None) : v \in EntryValues, m \in MemberLists}
  \cup {Variable(Some(Str_a), Some(Str_WrappedObject), None, None, None, None)}
  \cup StatusEntries

SimpleEntries ==
  {TableEntry(Str_WrappedObject, Some(<<ValueVariable(Str_a, Str_one)>>)),
   TableEntry(Str_WrappedObject, None)}

\* the tables of k entries: any entry last, simple entries before it
RECURSIVE TablesOf(_)
TablesOf(k) ==
  IF k = 0 THEN {<<>>}
  ELSE IF k = 1 THEN {<<e>> : e \in TableEntries}
  ELSE {<<e>> \o t : e \in SimpleEntries, t \in TablesOf(k - 1)}

Tables == UNION {TablesOf(k) : k \in 0..MaxTable}

SimpleTables ==
  {<<>>,
   <<TableEntry(Str_WrappedObject, Some(<<ValueVariable(Str_a, Str_one)>>))>>,
   <<TableEntry(Str_WrappedObject, Some(<<ValueVariable(Str_a, Str_one)>>)),
     TableEntry(Str_WrappedArray, Some(<<ValueVariable(Str_length, Str_three)>>))>>}

LocalShapes ==
  {ValueVariable(Str_x, Str_true), ReferenceVariable(Str_x, 0),
   ReferenceVariable(Str_x, 1), StatusVariable(Str_a), OtherStatusVariable(Str_a)}
  \cup {ReferenceVariable(Str_context, k) : k \in 0..MaxTable}

LocalLists == {None} \cup {Some(l) : l \in SeqsUpTo(LocalShapes, MaxLocals)}

ArgumentLists == {None, Some(<<>>), Some(<<ValueVariable(Str_x, Str_true)>>)}

Frames ==
  {StackFrame(Str_f, Str_ajs, line, locals, arguments) :
     line \in {0, 8}, locals \in LocalLists, arguments \in ArgumentLists}

SimpleFrame ==
  StackFrame(Str_f, Str_ajs, 8,
             Some(<<ReferenceVariable(Str_x, 0), ReferenceVariable(Str_context, 1)>>),
             None)

\* the frame lists of k frames: any frame last, the simple frame before it
RECURSIVE FrameListsOf(_)
FrameListsOf(k) ==
  IF k = 0 THEN {<<>>}
  ELSE IF k = 1 THEN {<<f>> : f \in Frames}
  ELSE {<<SimpleFrame>> \o l : l \in FrameListsOf(k - 1)}

FrameLists == UNION {FrameListsOf(k) : k \in 0..MaxFrames}

Snapshots ==
  {Breakpoint(CapturedId, Str_ajs, 8, Some(TRUE), frames, Some(table)) :
     frames \in {None, Some(<<SimpleFrame>>)}, table \in Tables}
  \cup {Breakpoint(CapturedId, Str_ajs, 8, Some(TRUE), Some(frames), Some(table)) :
          frames \in FrameLists, table \in SimpleTables}
  \cup {Breakpoint(CapturedId, Str_ajs, 8, isFinalState, Some(<<SimpleFrame>>), table) :
          isFinalState \in {None, Some(FALSE), Some(TRUE)},
          table \in {None} \cup {Some(t) : t \in SimpleTables}}

LoadRequests(id) ==
  {MessageRequest(id, <<"Runtime", "getProperties">>,
                  Some(Params(None, None, None, None, Some(o), None, None))) :
     o \in {getObjectId(CapturedId, 0), getObjectId(CapturedId, 1),
            EmptyObjectId(CapturedId, 0), ScopeId(CapturedId, 0)}}

\* a breakpoint of the backend that has not been hit
PendingId == MaxBreakpoints + 3
PendingBreakpoint == Breakpoint(PendingId, Str_srcajs, 3, Some(FALSE), None, None)

InitLoad ==
  /\ propertyDescriptorListMap = EmptyMap
  /\ breakpoints \in {<<s, PendingBreakpoint>> : s \in Snapshots}
  /\ nextBreakpoint = 0
  /\ inflight = {}
  /\ running = TRUE
  /\ last = InitLast
  /\ scripts = NoScripts
  /\ connections = OneConnection

NextLoad ==
  \/ \E request \in LoadRequests(FreshId) :
       /\ inflight = {}
       /\ RequestArrives(request)
  \/ \E snapshotId \in {CapturedId, PendingId, UnknownId},
          caller \in {"direct", "listener"} :
       LoadSnapshotCalled(snapshotId, caller)
  \/ \E handler \in inflight :
       \E reply \in Replies(handler.call, breakpoints, nextBreakpoint) :
         LoadSnapshotReplies(handler, reply)

SpecLoad == InitLoad /\ [][NextLoad]_vars

----------------------------------------------------------------------------
(* The pure functions on their inputs: parseVariableValue on the value of   *)
(* a local, stackdriverToDevToolsLine on the line of a stack frame (both in *)
(* loadSnapshot), devToolsToStackdriverLine on the lineNumber of a          *)
(* setBreakpointByUrl request.                                              *)

MaxLine == 2

\* values Stackdriver Debug reports for a variable
ParseInputs ==
  {<<"u","n","d","e","f","i","n","e","d">>, <<"n","u","l","l">>, <<"t","r","u","e">>,
   <<"f","a","l","s","e">>, <<"N","a","N">>, <<"I","n","f","i","n","i","t","y">>,
   <<"-","I","n","f","i","n","i","t","y">>, <<"S","y","m","b","o","l","(","a",")">>,
   <<"S","y","m","b","o","l","(",")">>, <<"S","y","m","b","o","l","(">>,
   <<"S","y","m","b","o","l","(","a",")"," ">>, <<"s","y","m","b","o","l","(","a",")">>,
   <<"f","u","n","c","t","i","o","n"," ","f","(",")">>,
   <<"f","u","n","c","t","i","o","n"," ","(",")">>,
   <<"f","u","n","c","t","i","o","n"," ","f","(",")"," ","{","}">>,
   <<"f","u","n","c","t","i","o","n","(",")">>,
   <<"F","u","n","c","t","i","o","n"," ","f","(",")">>, <<"/","a","/">>, <<"/">>,
   <<"/","a">>, <<"a","/">>, <<"/","/">>, <<"4","2">>, <<"-","1">>, <<"1",".","5">>,
   <<".","5">>, <<"5",".">>, <<"1","e","3">>, <<"0","x","1","F">>, <<"0","b","2">>,
   <<" ","4","2"," ">>, <<" ">>, <<"0","0","7">>, <<"+","I","n","f","i","n","i","t","y">>,
   <<"I","n","f","i","n","i","t","y"," ">>, <<" ","-","I","n","f","i","n","i","t","y">>,
   <<"1","e","9","9","9">>, <<"-","1","e","9","9","9">>, <<"1","e","-","9","9","9">>,
   <<"a","b","c">>, <<"T","R","U","E">>, <<"N","u","l","l">>, <<"n","a","n">>,
   <<"i","n","f","i","n","i","t","y">>, <<"1","2","p","x">>, <<"1",",","5">>,
   <<"-","-","1">>, <<"+">>, <<"-">>, <<".">>, <<"e","5">>, <<"1","e">>,
   <<"#","<","A","r","r","a","y",">">>, <<"t","r","u","e"," ">>}

\* one-indexed line numbers a breakpoint may carry, possible or not
StackdriverLines == (0 - 1)..(MaxLine + 1)

\* zero-indexed line numbers a client may ask for
DevToolsLines == 0..MaxLine

\* a snapshot of one frame at `line` with one local of value `value`
PureSnapshot(value, line) ==
  Breakpoint(CapturedId, Str_ajs, line, Some(TRUE),
             Some(<<StackFrame(Str_f, Str_ajs, line,
                               Some(<<ValueVariable(Str_x, value)>>), None)>>),
             Some(<<>>))

PureRequests(id) ==
  {MessageRequest(id, <<"Debugger", "setBreakpointByUrl">>,
                  Some(Params(Some(Str_srcajs), None, Some(l), None, None, None, None))) :
     l \in DevToolsLines}

InitPure ==
  /\ propertyDescriptorListMap = EmptyMap
  /\ breakpoints \in {<<PureSnapshot(value, line)>> :
                         value \in ParseInputs, line \in StackdriverLines}
  /\ nextBreakpoint = 0
  /\ inflight = {}
  /\ running = TRUE
  /\ last = InitLast
  /\ scripts = NoScripts
  /\ connections = OneConnection

NextPure ==
  \/ \E request \in PureRequests(FreshId) : RequestArrives(request)
  \/ \E handler \in inflight :
       \E reply \in Replies(handler.call, breakpoints, nextBreakpoint) :
         BackendReplies(handler, reply)
  \/ LoadSnapshotCalled(CapturedId, "direct")
  \/ \E handler \in inflight :
       \E reply \in Replies(handler.call, breakpoints, nextBreakpoint) :
         LoadSnapshotReplies(handler, reply)

SpecPure == InitPure /\ [][NextPure]_vars

----------------------------------------------------------------------------
(* parseScripts on its inputs: the lists of files globby may find.          *)

MaxFiles == 12

\* a file of the source directory: its path, the number of lines the scan
\* counts, and whether it can be read
ScriptFile(i, readable) ==
  [filePath |-> <<"f">> \o NatToStr(i) \o <<".","j","s">>, numberOfLines |-> i % 3,
   readable |-> readable]

\* lists of up to MaxFiles files, all readable or all but the first or the last
FileLists ==
  {[i \in 1..n |-> ScriptFile(i, i # unreadable)] :
     n \in 0..MaxFiles, unreadable \in {0, 1, MaxFiles}}

InitScripts ==
  /\ propertyDescriptorListMap = EmptyMap
  /\ breakpoints = <<>>
  /\ nextBreakpoint = 0
  /\ inflight = {}
  /\ running = TRUE
  /\ last = InitLast
  /\ scripts = NoScripts
  /\ connections = OneConnection

NextScripts ==
  \/ ParseScriptsCalled
  \/ \E fileList \in FileLists : GlobbyResolves(fileList)
  \/ \E i \in 1..Len(scripts.status) : ScanEnds(i)

SpecScripts == InitScripts /\ [][NextScripts]_vars

----------------------------------------------------------------------------
(* The server over the life of several connections: clients come and go     *)
(* while the one Adapter keeps every listener it was given.                 *)

ConnectionRequests(id) ==
  {MessageRequest(id, <<"Debugger", m>>, None) : m \in DebuggerMethods}
  \cup ConcurrentRequests(id)
  \cup {MessageRequest(id, <<"Debugger", "setBreakpointByUrl">>, p) :
          p \in SetBreakpointByUrlParams}

InitConnections ==
  /\ propertyDescriptorListMap = EmptyMap
  /\ breakpoints = <<CapturedSnapshot>>
  /\ nextBreakpoint = 0
  /\ inflight = {}
  /\ running = TRUE
  /\ last = InitLast
  /\ scripts = NoScripts
  /\ connections = OneConnection

NextConnections ==
  \/ Connects
  \/ \E c \in 1..Len(connections) : Closes(c)
  \/ \E c \in 1..Len(connections), request \in ConnectionRequests(FreshId) :
       RequestArrivesOn(c, request)
  \/ \E handler \in inflight :
       \E reply \in Replies(handler.call, breakpoints, nextBreakpoint) :
         BackendReplies(handler, reply)

SpecConnections == InitConnections /\ [][NextConnections]_vars

----------------------------------------------------------------------------
(* Properties of the request router and of the transport, under Spec.       *)

\* the step just taken ran the handler of a request with this method string
IsRequestOf(domain, method) ==
  /\ last.op \in {"request", "reply"}
  /\ IsSome(last.request)
  /\ Get(last.request).method = <<domain, method>>

LastParams == Get(last.request).params

UpdateBreakpointListEmitted ==
  \E i \in 1..Len(last.emitted) : last.emitted[i].event = "updateBreakpointList"

\* C1: a Runtime.getProperties request for object identifier X succeeds exactly
\* when X is a key of the store; it then returns the list stored under X, in
\* its order, and otherwise fails with the not-found error.
C1_GetPropertiesIffStored ==
  (/\ IsRequestOf("Runtime", "getProperties")
   /\ IsSome(LastParams)
   /\ IsSome(Get(LastParams).objectId))
  => IF MapHas(last.storeBefore, Get(Get(LastParams).objectId))
     THEN /\ last.kind = "return"
          /\ last.result =
               Some(Result(None, None, None, None,
                           Some(last.storeBefore[Get(Get(LastParams).objectId)])))
     ELSE /\ last.kind = "throw"
          /\ last.err = "remoteObjectDoesNotExist"

\* a stored list of two descriptors has been returned
C1_Witness ==
  /\ IsRequestOf("Runtime", "getProperties")
  /\ last.kind = "return"
  /\ Len(Get(Get(last.result).result)) = 2
  /\ Get(Get(last.result).result)[1].name # Get(Get(last.result).result)[2].name

\* C2: a request for one of the unsupported methods fails with the
\* not-supported error whatever its params and whatever the adapter's state,
\* and changes neither the store nor the backend's breakpoints.
C2_UnsupportedMethodsFail ==
  (\/ \E m \in DebuggerUnsupported : IsRequestOf("Debugger", m)
   \/ \E m \in RuntimeUnsupported : IsRequestOf("Runtime", m))
  => /\ last.op = "request"
     /\ last.kind = "throw"
     /\ last.err = "notSupported"
     /\ last.calls = None
     /\ propertyDescriptorListMap = last.storeBefore
     /\ breakpoints = last.breakpointsBefore

\* an unsupported request with params has failed while a snapshot is loaded
C2_Witness ==
  /\ IsRequestOf("Runtime", "evaluate")
  /\ IsSome(LastParams)
  /\ last.kind = "throw"
  /\ propertyDescriptorListMap # EmptyMap

\* C3: a request for one of the methods without effect returns {} whatever its
\* params, leaves the store unchanged, calls no backend operation and emits
\* nothing.
C3_NoEffectMethodsReturnEmpty ==
  (\/ \E m \in DebuggerNoEffect \cup DebuggerNotImplemented : IsRequestOf("Debugger", m)
   \/ \E m \in RuntimeNoEffect : IsRequestOf("Runtime", m))
  => /\ last.op = "request"
     /\ last.kind = "return"
     /\ last.result = Some(EmptyResult)
     /\ last.calls = None
     /\ last.emitted = <<>>
     /\ last.sent = <<MessageResponse(Get(last.request).id, EmptyResult)>>
     /\ propertyDescriptorListMap = last.storeBefore
     /\ breakpoints = last.breakpointsBefore

\* Debugger.setBreakpoint with params has returned {} while a snapshot is loaded
C3_Witness ==
  /\ IsRequestOf("Debugger", "setBreakpoint")
  /\ IsSome(LastParams)
  /\ last.result = Some(EmptyResult)
  /\ propertyDescriptorListMap # EmptyMap

\* C4: a Debugger.setBreakpointByUrl request without params, or whose url is
\* absent or empty, fails; setBreakpoint is not called, the backend's
\* breakpoints are unchanged and updateBreakpointList is not emitted.
C4_SetBreakpointByUrlNeedsUrl ==
  (/\ IsRequestOf("Debugger", "setBreakpointByUrl")
   /\ (IsSome(LastParams) => ~TruthyStr(Get(LastParams).url)))
  => /\ last.op = "request"
     /\ last.kind = "throw"
     /\ last.calls = None
     /\ ~UpdateBreakpointListEmitted
     /\ breakpoints = last.breakpointsBefore

\* a request that carries urlRegex and no url has failed
C4_Witness ==
  /\ IsRequestOf("Debugger", "setBreakpointByUrl")
  /\ IsSome(LastParams)
  /\ Get(LastParams).url = None
  /\ TruthyStr(Get(LastParams).urlRegex)
  /\ last.kind = "throw"

\* C5: when a Debugger.setBreakpointByUrl request with url U and lineNumber L
\* succeeds, the backend was asked for a CAPTURE breakpoint at path U and line
\* L + 1, and the response carries the id of the breakpoint the backend returned
\* and one location: its path, its line minus 1, column 0.
C5_SetBreakpointByUrlResponse ==
  (/\ IsRequestOf("Debugger", "setBreakpointByUrl")
   /\ last.kind = "return")
  => /\ last.op = "reply"
     /\ TruthyStr(Get(LastParams).url)
     /\ Get(last.calls).name = "setBreakpoint"
     /\ Get(last.calls).action = Some("CAPTURE")
     /\ Get(last.calls).path = Get(LastParams).url
     /\ IsSome(Get(LastParams).lineNumber)
          => Get(last.calls).line = Some(Get(Get(LastParams).lineNumber) + 1)
     /\ IsSome(last.created)
     /\ last.result =
          Some(Result(None, None, Some(Get(last.created).id),
                      Some(<<[scriptId |-> Get(last.created).location.path,
                              lineNumber |-> Get(last.created).location.line - 1,
                              columnNumber |-> 0]>>),
                      None))

\* a request with urlRegex and a condition for line 2 has been answered with the
\* breakpoint the backend set on its line 3
C5_Witness ==
  /\ IsRequestOf("Debugger", "setBreakpointByUrl")
  /\ last.kind = "return"
  /\ TruthyStr(Get(LastParams).urlRegex)
  /\ Get(LastParams).lineNumber = Some(2)
  /\ Get(last.created).location.line = 3

\* C6: whenever a Debugger.setBreakpointByUrl request fails, the backend has
\* created no breakpoint for it and updateBreakpointList has not been emitted.
C6_SetBreakpointByUrlAtomic ==
  (/\ IsRequestOf("Debugger", "setBreakpointByUrl")
   /\ last.kind = "throw")
  => /\ last.created = None
     /\ breakpoints = last.breakpointsBefore
     /\ ~UpdateBreakpointListEmitted

\* C7: the handler of a request sends at most one response, with the id of the
\* request and only when processRequest returned; when processRequest throws
\* the error is logged, nothing is sent under that id and the process goes on
\* serving the connection.
C7_OneResponsePerRequest ==
  (last.op \in {"request", "reply"} /\ IsSome(last.request))
  => /\ \A i \in 1..Len(last.sent) :
          IsSome(last.sent[i].id) =>
            /\ last.sent[i].id = Some(Get(last.request).id)
            /\ last.kind = "return"
            /\ last.sent[i].result = last.result
            /\ \A j \in 1..Len(last.sent) : IsSome(last.sent[j].id) => j = i
     /\ last.kind = "return" => \E i \in 1..Len(last.sent) : IsSome(last.sent[i].id)
     /\ last.kind = "throw" => (last.logged = 1 /\ running)
     /\ last.kind # "throw" => last.logged = 0
     /\ \A h \in inflight :
          (IsSome(h.request) /\ Get(h.request).id = Get(last.request).id)
            => last.kind = "await"

\* a request that failed after the backend had answered has been logged, and
\* nothing was sent for it
C7_Witness ==
  /\ last.op = "reply"
  /\ last.kind = "throw"
  /\ last.logged = 1
  /\ last.sent = <<>>
  /\ running

\* the step just taken ran processRequest on a request up to its first await
RequestRan == last.op = "request" /\ IsSome(last.request)

\* the text of the method string before its first `.`
LastDomain == Get(last.request).method[1]

\* C14: a request whose domain is neither Debugger nor Runtime (Console,
\* HeapProfiler, Profiler, Schema, an unknown name, a method string without
\* `.` other than the bare words) gets the empty result {}: the store and the
\* breakpoint list stay as they were, no backend call is made and nothing is
\* emitted.
C14_OtherDomainsReturnEmpty ==
  (RequestRan /\ LastDomain \notin {"Debugger", "Runtime"}) =>
    /\ last.kind = "return"
    /\ last.result = Some(EmptyResult)
    /\ last.calls = None
    /\ last.emitted = <<>>
    /\ last.sent = <<MessageResponse(Get(last.request).id, EmptyResult)>>
    /\ propertyDescriptorListMap = last.storeBefore
    /\ breakpoints = last.breakpointsBefore

\* a request of the Console domain has been answered
C14_Witness ==
  /\ RequestRan
  /\ Get(last.request).method = <<"Console", "enable">>
  /\ last.kind = "return"

\* the enumerated methods of the two domains
EnumeratedMethods(domain) ==
  IF domain = "Debugger"
  THEN DebuggerUnsupported \cup DebuggerNoEffect \cup DebuggerNotImplemented
       \cup {"enable", "getScriptSource", "removeBreakpoint", "resume",
             "setBreakpointByUrl"}
  ELSE RuntimeUnsupported \cup RuntimeNoEffect \cup {"getProperties"}

\* the method, all of the text after the first `.`, is one of the enumerated
MethodIsEnumerated ==
  /\ Len(Get(last.request).method) = 2
  /\ Get(last.request).method[2] \in EnumeratedMethods(LastDomain)

\* C15: a request of the domain Debugger or Runtime whose method is not one of
\* the domain's enumerated methods (a missing method part included) fails with
\* the unrecognized-method error and gets no result.
C15_UnrecognizedMethodRejected ==
  (RequestRan /\ LastDomain \in {"Debugger", "Runtime"} /\ ~MethodIsEnumerated) =>
    /\ last.kind = "throw"
    /\ last.err = (IF LastDomain = "Debugger" THEN "unrecognizedDebuggerMethod"
                   ELSE "unrecognizedRuntimeMethod")
    /\ last.result = None
    /\ last.sent = <<>>

\* C20: no entry of the property-descriptor store is ever evicted: across
\* requests (releaseObject, releaseObjectGroup, resume and removeBreakpoint
\* among them), backend replies, breakpoint hits and loads, the set of keys of
\* the store only grows.
C20_StoreKeysOnlyGrow ==
  [][DOMAIN propertyDescriptorListMap \subseteq DOMAIN propertyDescriptorListMap']_vars

\* Runtime.releaseObject has returned for an object of a loaded snapshot, and
\* the store still holds its list
C20_Witness ==
  /\ IsRequestOf("Runtime", "releaseObject")
  /\ last.kind = "return"
  /\ IsSome(LastParams)
  /\ Get(LastParams).objectId = Some(getObjectId(CapturedId, 0))
  /\ MapHas(propertyDescriptorListMap, getObjectId(CapturedId, 0))

\* the step just taken changed the breakpoint state: a setBreakpointByUrl or a
\* removeBreakpoint has succeeded, or the DebugProxy has reported a hit
BreakpointStateChanged ==
  \/ /\ last.op = "reply"
     /\ last.kind = "return"
     /\ Get(last.calls).name \in {"setBreakpoint", "removeBreakpoint"}
  \/ last.op = "breakpointHit"

\* the updateBreakpointList events among those the step emitted
UpdateBreakpointListEvents ==
  SelectSeq(last.emitted, LAMBDA e : e.event = "updateBreakpointList")

\* C24: every operation that changes the breakpoint state (a successful
\* setBreakpointByUrl, a successful removeBreakpoint, a breakpoint hit) emits
\* exactly one updateBreakpointList carrying the pending and captured lists as
\* they then are.
C24_BreakpointChangeNotified ==
  BreakpointStateChanged =>
    UpdateBreakpointListEvents = <<emitUpdateBreakpointList(breakpoints)>>

\* C25: the method string is split at its first `.` only, so a method string
\* with more than one `.`, such as `Debugger.enable.x`, is dispatched with all
\* of the text after the first `.` as its method and rejected as unrecognized.
C25_SplitAtFirstDotOnly ==
  (/\ RequestRan
   /\ LastDomain \in {"Debugger", "Runtime"}
   /\ Len(Get(last.request).method) > 2) =>
    /\ last.kind = "throw"
    /\ last.err \in {"unrecognizedDebuggerMethod", "unrecognizedRuntimeMethod"}

----------------------------------------------------------------------------
(* Properties of loadSnapshot, under SpecLoad.                              *)

\* the step just taken ended a loadSnapshot on a breakpoint the backend returned
LoadEnded == last.op = "loadSnapshotReply" /\ IsSome(last.load)

\* the breakpoint as the backend returned it
LoadedSnapshot == Get(last.load).snapshot

\* C8: when the breakpoint the backend returns has isFinalState false or absent,
\* loadSnapshot fails, produces no payload for Debugger.paused and leaves the
\* store as it was before the call.
C8_OnlyFinalStateIsLoaded ==
  (LoadEnded /\ LoadedSnapshot.isFinalState \in {None, Some(FALSE)})
  => /\ last.kind = "throw"
     /\ last.err = "notACapturedSnapshot"
     /\ Get(last.load).payload = None
     /\ last.sent = <<>>
     /\ propertyDescriptorListMap = last.storeBefore

\* the load of a pending breakpoint has failed while a snapshot is loaded
C8_Witness ==
  /\ LoadEnded
  /\ LoadedSnapshot.isFinalState = Some(FALSE)
  /\ last.kind = "throw"
  /\ last.storeBefore # EmptyMap
  /\ propertyDescriptorListMap = last.storeBefore

\* the last local of the frame is named `context` and carries a back-reference
HasContextLast(stackFrame) ==
  /\ Len(FrameLocals(stackFrame)) > 0
  /\ FrameLocals(stackFrame)[Len(FrameLocals(stackFrame))].name = Some(Str_context)
  /\ IsSome(FrameLocals(stackFrame)[Len(FrameLocals(stackFrame))].varTableIndex)

ContextIndex(stackFrame) ==
  Get(FrameLocals(stackFrame)[Len(FrameLocals(stackFrame))].varTableIndex)

\* the locals of the frame before its last one
OtherLocals(stackFrame) ==
  SubSeq(FrameLocals(stackFrame), 1, Len(FrameLocals(stackFrame)) - 1)

\* what the load of the snapshot comes to when its frame i has no locals
LoadWithoutLocals(i) ==
  loadSnapshot([LoadedSnapshot EXCEPT !.stackFrames =
                  Some([StackFramesOf(LoadedSnapshot) EXCEPT ![i].locals = None])],
               last.storeBefore, SourceDirectory)

\* the other locals of frame i, parsed against the descriptors of pass 1
OtherLocalsParsed(i) ==
  parseVariableList(OtherLocals(StackFramesOf(LoadedSnapshot)[i]),
                    LoadWithoutLocals(i).map)

\* C9: for a finalized snapshot and a frame whose last local is `context` with
\* back-reference k, k = 0 included, where the rest of the snapshot is loadable
\* and pass 1 built a descriptor for k: the call frame's `this` is that
\* descriptor and the list stored under the frame's scope id is the list of the
\* other locals.
C9_ContextLocalBecomesThis ==
  LoadEnded =>
    \A i \in 1..Len(StackFramesOf(LoadedSnapshot)) :
      (/\ LoadedSnapshot.isFinalState = Some(TRUE)
       /\ HasContextLast(StackFramesOf(LoadedSnapshot)[i])
       /\ LoadWithoutLocals(i).err = "none"
       /\ OtherLocalsParsed(i).err = "none"
       /\ MapHas(LoadWithoutLocals(i).map,
                 ContextIndex(StackFramesOf(LoadedSnapshot)[i])))
      => /\ last.kind = "return"
         /\ Get(Get(last.load).payload).callFrames[i].this =
              LoadWithoutLocals(i).map[ContextIndex(StackFramesOf(LoadedSnapshot)[i])]
         /\ propertyDescriptorListMap[ScopeId(LoadedSnapshot.id, i - 1)] =
              OtherLocalsParsed(i).list

\* the table entry has a value that starts with `Error` and no member named `stack`
IsErrorWithoutStack(variable) ==
  /\ IsSome(variable.value)
  /\ StartsWith(Get(variable.value), Str_Error)
  /\ IsSome(variable.members) =>
       \A j \in 1..Len(Get(variable.members)) :
         Get(variable.members)[j].name # Some(Str_stack)

\* C10: the load of a finalized snapshot fails when an entry of its variable
\* table has a value that starts with `Error` and no member named `stack`,
\* whether it has no members or members of other names.
C10_ErrorWithoutStackFails ==
  (/\ LoadEnded
   /\ LoadedSnapshot.isFinalState = Some(TRUE)
   /\ \E i \in 1..Len(VariableTableOf(LoadedSnapshot)) :
        IsErrorWithoutStack(VariableTableOf(LoadedSnapshot)[i]))
  => last.kind = "throw"

\* the descriptors pass 1 built in the load that just ended
LoadedMap == Get(last.load).map

LoadedTable == VariableTableOf(LoadedSnapshot)

HasLengthMember(variable) ==
  /\ IsSome(variable.members)
  /\ \E j \in 1..Len(Get(variable.members)) :
       Get(variable.members)[j].name = Some(Str_length)

\* the first member named `length`
LengthMember(variable) ==
  Get(variable.members)[CHOOSE j \in 1..Len(Get(variable.members)) :
     /\ Get(variable.members)[j].name = Some(Str_length)
     /\ \A k \in 1..(j - 1) : Get(variable.members)[k].name # Some(Str_length)]

\* C11: a table entry with the value `#<Array>` and a member `length` of value n
\* gets the pass-1 descriptor of type object, subtype array, className Array
\* and description Array(n); without a member named `length` (no members, or
\* members of other names) the load fails.
C11_ArrayDescriptor ==
  (LoadEnded /\ LoadedSnapshot.isFinalState = Some(TRUE)) =>
    \A i \in 1..Len(LoadedTable) :
      LoadedTable[i].value = Some(Str_WrappedArray) =>
        /\ ~HasLengthMember(LoadedTable[i]) => last.kind = "throw"
        /\ (HasLengthMember(LoadedTable[i]) /\ last.kind = "return")
             => MapHas(LoadedMap, i - 1)
        /\ (/\ HasLengthMember(LoadedTable[i])
            /\ IsSome(LengthMember(LoadedTable[i]).value)
            /\ MapHas(LoadedMap, i - 1))
           => /\ LoadedMap[i - 1].type = "object"
              /\ LoadedMap[i - 1].subtype = Some(<<"a","r","r","a","y">>)
              /\ LoadedMap[i - 1].className = Some(<<"A","r","r","a","y">>)
              /\ LoadedMap[i - 1].description =
                   Some(<<"A","r","r","a","y","(">>
                        \o Get(LengthMember(LoadedTable[i]).value) \o <<")">>)

\* a load has succeeded with the descriptor Array(3) for entry 1 of its table
C11_Witness ==
  /\ LoadEnded
  /\ last.kind = "return"
  /\ MapHas(LoadedMap, 1)
  /\ LoadedMap[1].description = Some(<<"A","r","r","a","y","(","3",")">>)

\* the failures of loadSnapshot over the shape of the snapshot's data: a missing
\* required child, a value together with a back-reference, a forbidden field, a
\* frame with arguments, a value of no known kind
DataShapeErrors ==
  {"arrayHasNoLength", "errorHasNoStack", "variableHasValueAndIndex",
   "variableHasTypeOrMembers", "variableHasNoName", "tableEntryHasNameTypeOrIndex",
   "tableEntryHasTypeOrIndex", "stackFrameHasArguments", "unexpectedValue"}

\* the step just taken was a loadSnapshot that failed over the shape of the data
LoadFailedOnShape ==
  LoadEnded /\ last.kind = "throw" /\ last.err \in DataShapeErrors

GetPropertiesOf(objectId, store) ==
  GetProperties(MessageRequest(1, <<"Runtime", "getProperties">>,
                               Some(Params(None, None, None, None, Some(objectId),
                                           None, None))),
                store)

\* C16: a loadSnapshot that aborts on a data-shape violation leaves the store
\* unchanged: for every object identifier, getProperties after the failed load
\* has the outcome it had just before it.
C16_FailedLoadLeavesStore ==
  LoadFailedOnShape =>
    \A objectId \in (DOMAIN propertyDescriptorListMap) \cup (DOMAIN last.storeBefore) :
      GetPropertiesOf(objectId, propertyDescriptorListMap)
      = GetPropertiesOf(objectId, last.storeBefore)

\* C17: a data-shape violation in a load that a `loadSnapshot` message of the
\* companion channel set off does not crash the adapter: after the failed load
\* the process is still running and goes on serving the connection.
C17_FailedLoadKeepsRunning ==
  (LoadFailedOnShape /\ last.caller = "listener") => running

\* C18: the status classifier never raises an error: for a variable without a
\* usable value, whatever its status and name, it logs and returns.
C18_StatusClassifierNeverRaises ==
  LoadEnded => last.err # "unexpectedStatusFormat"

\* the frames of the snapshot as the backend returned them
LoadedFrames == StackFramesOf(LoadedSnapshot)

\* the load of the same snapshot with the arguments field of every frame absent
LoadWithoutArguments ==
  loadSnapshot([LoadedSnapshot EXCEPT !.stackFrames =
                  Some([i \in 1..Len(LoadedFrames) |->
                          [LoadedFrames[i] EXCEPT !.arguments = None]])],
               last.storeBefore, SourceDirectory)

\* C19: loadSnapshot rejects a stack frame exactly when its arguments list is
\* non-empty; with arguments absent or empty the frame becomes a call frame,
\* and the call frames are the frames in their order, each with the frame's
\* function name and its line less one.
C19_FramesRejectedForArguments ==
  (/\ LoadEnded
   /\ LoadedSnapshot.isFinalState = Some(TRUE)
   /\ LoadWithoutArguments.err = "none") =>
    IF \E i \in 1..Len(LoadedFrames) :
         /\ IsSome(LoadedFrames[i].arguments)
         /\ Len(Get(LoadedFrames[i].arguments)) > 0
    THEN last.kind = "throw"
    ELSE /\ last.kind = "return"
         /\ Len(Get(Get(last.load).payload).callFrames) = Len(LoadedFrames)
         /\ \A i \in 1..Len(LoadedFrames) :
              /\ Get(Get(last.load).payload).callFrames[i].functionName
                 = LoadedFrames[i].function
              /\ Get(Get(last.load).payload).callFrames[i].location.lineNumber
                 = LoadedFrames[i].location.line - 1

\* the keys of the store the load just ended has added
KeysWritten == (DOMAIN propertyDescriptorListMap) \ (DOMAIN last.storeBefore)

\* the keys under which the call-frame step stores the locals of the frames
ScopeKeys == {ScopeId(LoadedSnapshot.id, i - 1) : i \in 1..Len(LoadedFrames)}

\* C21: pass 2 stores the list of an entry with a value under the object
\* identifier pass 1 gave the entry's descriptor (`-object-` with children,
\* `-empty-` for a childless Object) and writes no key for an entry without
\* one: every key the two passes write is the objectId of a pass-1 descriptor.
C21_PassTwoKeysArePassOneIds ==
  (LoadEnded /\ last.kind = "return") =>
    \A key \in KeysWritten \ ScopeKeys :
      \E index \in DOMAIN LoadedMap : LoadedMap[index].objectId = Some(key)

\* the members of a table entry, none when the field is absent
MembersOf(variable) == IF IsSome(variable.members) THEN Get(variable.members) ELSE <<>>

\* a child with a name, a back-reference to a table entry that has a value, and
\* no value of its own
IsReferenceChild(child) ==
  /\ IsSome(child.name)
  /\ child.value = None
  /\ IsSome(child.varTableIndex)
  /\ child.type = None /\ child.members = None /\ child.status = None
  /\ Get(child.varTableIndex) < Len(LoadedTable)
  /\ IsSome(LoadedTable[Get(child.varTableIndex) + 1].value)

\* every member and every local of the snapshot has a value or a back-reference
AllChildrenResolvable ==
  /\ \A i \in 1..Len(LoadedTable) : \A j \in 1..Len(MembersOf(LoadedTable[i])) :
       IsSome(MembersOf(LoadedTable[i])[j].value)
       \/ IsSome(MembersOf(LoadedTable[i])[j].varTableIndex)
  /\ \A i \in 1..Len(LoadedFrames) : \A j \in 1..Len(FrameLocals(LoadedFrames[i])) :
       IsSome(FrameLocals(LoadedFrames[i])[j].value)
       \/ IsSome(FrameLocals(LoadedFrames[i])[j].varTableIndex)

\* the list stored under `key` holds the descriptor of the child: its name, and
\* as value the pass-1 descriptor of the entry it refers to
ListHoldsReference(key, child) ==
  /\ MapHas(propertyDescriptorListMap, key)
  /\ \E n \in 1..Len(propertyDescriptorListMap[key]) :
       /\ propertyDescriptorListMap[key][n].name = Get(child.name)
       /\ propertyDescriptorListMap[key][n].value
          = Some(LoadedMap[Get(child.varTableIndex)])

\* C22: a member or frame local with a name and a back-reference k and no value
\* is in the property list with the pass-1 descriptor of entry k as its value,
\* for every k of the table, 0 and forward references included; it is neither
\* dropped nor given an undefined value.
C22_BackReferenceResolved ==
  (LoadEnded /\ LoadedSnapshot.isFinalState = Some(TRUE) /\ AllChildrenResolvable) =>
    /\ \A i \in 1..Len(LoadedTable) : \A j \in 1..Len(MembersOf(LoadedTable[i])) :
         IsReferenceChild(MembersOf(LoadedTable[i])[j]) =>
           /\ last.err # "TypeError"
           /\ last.kind = "return" =>
                ListHoldsReference(getObjectId(LoadedSnapshot.id, i - 1),
                                   MembersOf(LoadedTable[i])[j])
    /\ \A i \in 1..Len(LoadedFrames) : \A j \in 1..Len(FrameLocals(LoadedFrames[i])) :
         (/\ IsReferenceChild(FrameLocals(LoadedFrames[i])[j])
          /\ FrameLocals(LoadedFrames[i])[j].name # Some(Str_context)) =>
           /\ last.err # "TypeError"
           /\ last.kind = "return" =>
                ListHoldsReference(ScopeId(LoadedSnapshot.id, i - 1),
                                   FrameLocals(LoadedFrames[i])[j])

\* a child with neither a value nor a back-reference: a status marker
IsStatusMarker(child) ==
  /\ child.value = None /\ child.varTableIndex = None
  /\ child.type = None /\ child.members = None

\* no child of the snapshot refers to the table entry 0
NoChildRefersToZero ==
  /\ \A i \in 1..Len(LoadedTable) : \A j \in 1..Len(MembersOf(LoadedTable[i])) :
       MembersOf(LoadedTable[i])[j].varTableIndex # Some(0)
  /\ \A i \in 1..Len(LoadedFrames) : \A j \in 1..Len(FrameLocals(LoadedFrames[i])) :
       FrameLocals(LoadedFrames[i])[j].varTableIndex # Some(0)

\* the children of the snapshot other than status markers, list by list
RECURSIVE WithoutMarkers(_)
WithoutMarkers(list) ==
  IF Len(list) = 0 THEN <<>>
  ELSE (IF IsStatusMarker(Head(list)) THEN <<>> ELSE <<Head(list)>>)
       \o WithoutMarkers(Tail(list))

\* the load of the same snapshot with the status markers taken out of its
\* member lists and locals
LoadWithoutMarkers ==
  loadSnapshot(
    [LoadedSnapshot EXCEPT
       !.variableTable = Some([i \in 1..Len(LoadedTable) |->
          IF IsSome(LoadedTable[i].members)
          THEN [LoadedTable[i] EXCEPT !.members = Some(WithoutMarkers(MembersOf(LoadedTable[i])))]
          ELSE LoadedTable[i]]),
       !.stackFrames = Some([i \in 1..Len(LoadedFrames) |->
          IF IsSome(LoadedFrames[i].locals)
          THEN [LoadedFrames[i] EXCEPT !.locals = Some(WithoutMarkers(FrameLocals(LoadedFrames[i])))]
          ELSE LoadedFrames[i]])],
    last.storeBefore, SourceDirectory)

\* the snapshot has a status marker among its members or locals
HasStatusMarker ==
  \/ \E i \in 1..Len(LoadedTable) : \E j \in 1..Len(MembersOf(LoadedTable[i])) :
       IsStatusMarker(MembersOf(LoadedTable[i])[j])
  \/ \E i \in 1..Len(LoadedFrames) : \E j \in 1..Len(FrameLocals(LoadedFrames[i])) :
       IsStatusMarker(FrameLocals(LoadedFrames[i])[j])

\* C23: a member or frame local with neither a value nor a back-reference is
\* no error path: it goes to the status classifier and is left out of the
\* property list, and the load succeeds with the other children in their order,
\* that is with the store the load without the markers yields.
C23_StatusMarkerIsOmitted ==
  (/\ LoadEnded
   /\ LoadedSnapshot.isFinalState = Some(TRUE)
   /\ HasStatusMarker
   /\ NoChildRefersToZero
   /\ LoadWithoutMarkers.err = "none") =>
    /\ last.kind = "return"
    /\ propertyDescriptorListMap = LoadWithoutMarkers.store

\* the object identifiers in the property lists of the store
StoredObjectIds ==
  {Get(Get(propertyDescriptorListMap[key][n].value).objectId) :
     <<key, n>> \in {<<k, m>> \in (DOMAIN propertyDescriptorListMap) \X (1..(MaxMembers + MaxLocals)) :
                      /\ m <= Len(propertyDescriptorListMap[k])
                      /\ IsSome(propertyDescriptorListMap[k][m].value)
                      /\ IsSome(Get(propertyDescriptorListMap[k][m].value).objectId)}}

\* the object identifiers in the payload of Debugger.paused: the scope object
\* and the `this` of every call frame
PayloadObjectIds ==
  LET callFrames == Get(Get(last.load).payload).callFrames
  IN {callFrames[i].scopeChain[1].object.objectId : i \in 1..Len(callFrames)}
     \cup {Get(callFrames[i].this.objectId) :
             i \in {j \in 1..Len(callFrames) : IsSome(callFrames[j].this.objectId)}}

\* C27: after a loadSnapshot that succeeds, every object identifier in the
\* payload it returned or in a property list it stored (the scope object of a
\* call frame, the objectId of a `this`, the objectId of a property value) is a
\* key of the store, so that getProperties succeeds for it.
C27_HandedOutIdsAreStored ==
  (LoadEnded /\ last.kind = "return") =>
    \A objectId \in PayloadObjectIds \cup StoredObjectIds :
      /\ MapHas(propertyDescriptorListMap, objectId)
      /\ GetPropertiesOf(objectId, propertyDescriptorListMap).kind = "return"

\* a load has succeeded whose payload has a `this` with an object identifier
\* and whose lists hold a value with one
C27_Witness ==
  /\ LoadEnded
  /\ last.kind = "return"
  /\ StoredObjectIds # {}
  /\ \E i \in 1..Len(Get(Get(last.load).payload).callFrames) :
       IsSome(Get(Get(last.load).payload).callFrames[i].this.objectId)

\* the snapshot object as the load left it in the backend client's list
SnapshotAfterLoad == breakpoints[BreakpointIndex(breakpoints, LoadedSnapshot.id)]

\* the next loadSnapshot call with the same id, handed the same object
LoadAgain == loadSnapshot(SnapshotAfterLoad, propertyDescriptorListMap, SourceDirectory)

\* C30: a load leaves the snapshot it was given as it was, so that the next
\* load of the same id, handed the same object, returns an equal payload (the
\* same call frames with the same `this`) and stores the same lists under the
\* same keys.
C30_ReloadGivesSamePayload ==
  (LoadEnded /\ last.kind = "return") =>
    /\ StackFramesOf(SnapshotAfterLoad) = StackFramesOf(LoadedSnapshot)
    /\ LoadAgain.err = "none"
    /\ LoadAgain.payload = Get(last.load).payload
    /\ LoadAgain.store = propertyDescriptorListMap

----------------------------------------------------------------------------
(* Properties of the pure functions, under SpecPure.                        *)

\* the value of the one local of the snapshot, and the descriptor loadSnapshot
\* stored for it under the scope of frame 0
ParsedInput == Get(Get(Get(LoadedSnapshot.stackFrames)[1].locals)[1].value)
ParsedDescriptor == Get(propertyDescriptorListMap[ScopeId(CapturedId, 0)][1].value)
LocalParsed == LoadEnded /\ MapHas(propertyDescriptorListMap, ScopeId(CapturedId, 0))

\* C12: parseVariableValue returns the descriptor of the first matching rule:
\* the seven keywords give their fixed descriptors; else Symbol(...) gives type
\* symbol; else `function ...()` gives type function with the input followed
\* by `{}` as description; else /.../ gives object/regexp; else the type is
\* number exactly when the string parses as a finite number (description the
\* input, value that number); else type string with the input as value.  A
\* second evaluation yields an equal descriptor.
C12_ParseVariableValueRules ==
  LocalParsed =>
    /\ ParsedDescriptor = parseVariableValue(ParsedInput)
    /\ IF ParsedInput = <<"u","n","d","e","f","i","n","e","d">>
       THEN ParsedDescriptor = RemoteObject("undefined", None, None, None, None, None, None)
       ELSE IF ParsedInput = <<"n","u","l","l">>
       THEN ParsedDescriptor = RemoteObject("object", Some(<<"n","u","l","l">>), None, None,
                                            None, Some(<<"null">>), None)
       ELSE IF ParsedInput = <<"t","r","u","e">>
       THEN ParsedDescriptor = RemoteObject("boolean", None, None, None, None,
                                            Some(<<"boolean", TRUE>>), None)
       ELSE IF ParsedInput = <<"f","a","l","s","e">>
       THEN ParsedDescriptor = RemoteObject("boolean", None, None, None, None,
                                            Some(<<"boolean", FALSE>>), None)
       ELSE IF ParsedInput \in {<<"N","a","N">>, <<"I","n","f","i","n","i","t","y">>,
                                <<"-","I","n","f","i","n","i","t","y">>}
       THEN ParsedDescriptor = RemoteObject("number", None, None, Some(ParsedInput), None,
                                            None, Some(ParsedInput))
       ELSE IF /\ StartsWith(ParsedInput, <<"S","y","m","b","o","l","(">>)
               /\ EndsWith(ParsedInput, <<")">>)
       THEN ParsedDescriptor = RemoteObject("symbol", None, None, Some(ParsedInput), None,
                                            None, None)
       ELSE IF /\ StartsWith(ParsedInput, <<"f","u","n","c","t","i","o","n"," ">>)
               /\ EndsWith(ParsedInput, <<"(",")">>)
       THEN /\ ParsedDescriptor.type = "function"
            /\ ParsedDescriptor.description = Some(ParsedInput \o <<"{","}">>)
       ELSE IF StartsWith(ParsedInput, <<"/">>) /\ EndsWith(ParsedInput, <<"/">>)
       THEN /\ ParsedDescriptor.type = "object"
            /\ ParsedDescriptor.subtype = Some(<<"r","e","g","e","x","p">>)
       ELSE IF NumberKind(ParsedInput) = "finite"
       THEN /\ ParsedDescriptor.type = "number"
            /\ ParsedDescriptor.description = Some(ParsedInput)
            /\ ParsedDescriptor.value = Some(<<"number", Number(ParsedInput)>>)
       ELSE ParsedDescriptor = RemoteObject("string", None, None, None, None,
                                            Some(<<"string", ParsedInput>>), None)

\* the line of the one frame of the snapshot that was loaded
LoadedLine == Get(LoadedSnapshot.stackFrames)[1].location.line

\* the step just taken ended a setBreakpointByUrl whose request gave a line
SetBreakpointEnded ==
  /\ last.op = "reply"
  /\ Get(last.calls).name = "setBreakpoint"
  /\ IsSome(Get(LastParams).lineNumber)

\* C13: the two line translations are inverses on their domains: turning a
\* one-indexed n >= 1 into zero-indexed and back gives n, turning a zero-indexed
\* m >= 0 into one-indexed and back gives m; the translation to zero-indexed
\* fails for every input below 1 and for none at or above 1.
C13_LineTranslationsInverse ==
  /\ LoadEnded =>
       IF LoadedLine < 1
       THEN last.kind = "throw" /\ last.err = "lineNumberNotPossible"
       ELSE /\ last.kind = "return"
            /\ devToolsToStackdriverLine(
                 Get(Get(last.load).payload).callFrames[1].location.lineNumber)
               = LoadedLine
  /\ SetBreakpointEnded =>
       /\ Get(Get(LastParams).lineNumber) >= 0
       /\ stackdriverToDevToolsLine(Get(Get(last.calls).line))
          = [ok |-> TRUE, line |-> Get(Get(LastParams).lineNumber)]
       /\ IsSome(last.created) =>
            IF Get(last.created).location.line < 1
            THEN last.kind = "throw" /\ last.err = "lineNumberNotPossible"
            ELSE /\ last.kind = "return"
                 /\ Get(last.created).location.line = Get(Get(last.calls).line)
                      => Get(Get(last.result).locations)[1].lineNumber
                         = Get(Get(LastParams).lineNumber)

\* a load has translated a frame at a line above 1 to the line before it
C13_Witness ==
  /\ LoadEnded
  /\ LoadedLine > 1
  /\ Get(Get(last.load).payload).callFrames[1].location.lineNumber = LoadedLine - 1

----------------------------------------------------------------------------
(* Properties of parseScripts, under SpecScripts.                           *)

\* C26: while parseScripts builds the script list at most 10 scans are in
\* progress, however many files there are; no file is scanned twice, and when
\* parseScripts returns every file has been scanned once and one
\* Debugger.scriptParsed event per file has been sent, in the order of the file
\* list; no event is sent before every scan has completed.
C26_ParseScriptsBounded ==
  /\ Cardinality({i \in 1..Len(scripts.status) : scripts.status[i] = "scanning"}) <= 10
  /\ \A i \in 1..Len(scripts.status) :
       scripts.started[i] = (IF scripts.status[i] = "queued" THEN 0 ELSE 1)
  /\ scripts.sent # <<>> => \A i \in 1..Len(scripts.status) : scripts.status[i] = "done"
  /\ scripts.phase = "returned" =>
       /\ \A i \in 1..Len(scripts.status) : scripts.status[i] = "done"
       /\ Len(scripts.sent) = Len(scripts.fileList)
       /\ \A i \in 1..Len(scripts.fileList) :
            /\ scripts.sent[i].method = Some("Debugger.scriptParsed")
            /\ Get(scripts.sent[i].params).scriptId
               = SourceDirectory \o <<"/">> \o scripts.fileList[i].filePath
            /\ Get(scripts.sent[i].params).endLine = scripts.fileList[i].numberOfLines

\* parseScripts has returned for more than 10 files, one event sent for each
C26_Witness ==
  /\ scripts.phase = "returned"
  /\ Len(scripts.fileList) > 10
  /\ Len(scripts.sent) = Len(scripts.fileList)

----------------------------------------------------------------------------
(* Properties of loads that run beside requests, under Spec.                *)

\* the children of `list` that parseVariable turns into a descriptor
DescriptorCount(list) ==
  Cardinality({j \in 1..Len(list) :
                 TruthyStr(list[j].value) \/ TruthyNum(list[j].varTableIndex)})

\* `store` holds every list of `snapshot`, each with all its descriptors: one
\* list per table entry with a value, one per stack frame
CompleteStore(store, snapshot) ==
  /\ \A k \in 1..Len(VariableTableOf(snapshot)) :
       TruthyStr(VariableTableOf(snapshot)[k].value) =>
         /\ MapHas(store, getObjectId(snapshot.id, k - 1))
         /\ Len(store[getObjectId(snapshot.id, k - 1)])
            = IF TruthyObj(VariableTableOf(snapshot)[k].members)
              THEN DescriptorCount(Get(VariableTableOf(snapshot)[k].members))
              ELSE 1
  /\ \A i \in 1..Len(StackFramesOf(snapshot)) :
       /\ MapHas(store, ScopeId(snapshot.id, i - 1))
       /\ Len(store[ScopeId(snapshot.id, i - 1)])
          = DescriptorCount(RemainingLocals(StackFramesOf(snapshot)[i]))

----------------------------------------------------------------------------
(* Properties of the server over several connections, under                 *)
(* SpecConnections.                                                         *)

ResumeRequestRan ==
  RequestRan /\ Get(last.request).method = <<"Debugger", "resume">>

\* C29: a Debugger.resume request received on a connection has the
\* Debugger.resumed event sent on that connection and then the response
\* {id, result: {}} to the request, these two messages and in this order, and
\* it changes neither the property store nor the backend's breakpoints.
C29_ResumedEventBeforeResponse ==
  ResumeRequestRan =>
    /\ last.sent = <<MessageEvent("Debugger.resumed", None),
                     MessageResponse(Get(last.request).id, EmptyResult)>>
    /\ propertyDescriptorListMap = last.storeBefore
    /\ breakpoints = last.breakpointsBefore

====
